---- MODULE Spec2Model ----
(***************************************************************************)
(* Vendor relay (apps/vendor-relay/src/main.py): the identity redaction    *)
(* engine sanitize_vendor_data, the inbound guards verify_hmac and         *)
(* verify_ip_allowlist, the tenant token verifier verify_internal_jwt and  *)
(* the four message handlers with their audit sink.                        *)
(*                                                                         *)
(* Text is a sequence of one-character strings, so that substring search,  *)
(* lower-casing, replacement, decoding and integer parsing are computed    *)
(* and not assumed.                                                        *)
(***************************************************************************)
EXTENDS Integers, Sequences, FiniteSets, TLC

VARIABLES
    heap,        \* the Python object store: address -> dict or list object
    data,        \* address of the dict passed to sanitize_vendor_data
    input,       \* the caller's payload as a value, as it was before the call
    sanitized,   \* address returned by sanitize_vendor_data(data), 0 before
    resanitized, \* address returned by sanitize_vendor_data(sanitized), 0 before
    spc,         \* position of the caller of sanitize_vendor_data
    now,         \* int(time.time()): the relay's clock, in seconds
    rq,          \* request -> the HTTP request as received
    pc,          \* request -> position in its dependencies and handler
    resp,        \* request -> the response sent to its caller
    audit,       \* the vendor_communications table, in commit order
    wrote,       \* request -> ids of the audit records it committed
    handed,      \* request -> the redacted payload the handler holds
    jwt_payload, \* request -> the claims verify_internal_jwt returned
    calls,       \* the calls made to the vendor API, in order
    httpx_json,  \* how the installed httpx serializes json=data
    allowlist,   \* the CIDR ranges configured in ALLOWED_IPS
    peer,        \* request.client.host of a call of the network guard
    verdict,     \* what the network guard returned or raised for peer
    time_time,   \* time.time() of the budget monitor's host, in seconds
    alerted_sandboxes,   \* BudgetMonitor.alerted_sandboxes: sandbox_id -> last alert
    exceeding_sandboxes, \* the argument of the last call of send_alerts
    slack_posts, \* the calls of SlackNotifier.send_alert in that call, in order
    checks,      \* how many times send_alerts has been called
    asleep       \* the monitoring loop is in time.sleep

svars == <<heap, data, input, sanitized, resanitized, spc>>

rvars == <<now, rq, pc, resp, audit, wrote, handed, jwt_payload, calls, httpx_json>>

avars == <<allowlist, peer, verdict>>

mvars == <<time_time, alerted_sandboxes, exceeding_sandboxes, slack_posts, checks, asleep>>

vars == <<heap, data, input, sanitized, resanitized, spc,
          now, rq, pc, resp, audit, wrote, handed, jwt_payload, calls, httpx_json,
          allowlist, peer, verdict,
          time_time, alerted_sandboxes, exceeding_sandboxes, slack_posts, checks, asleep>>

(***************************************************************************)
(* Text                                                                    *)
(***************************************************************************)
UpperCase == <<"A", "B", "C", "D", "E", "F", "G", "H", "I", "J", "K", "L", "M",
               "N", "O", "P", "Q", "R", "S", "T", "U", "V", "W", "X", "Y", "Z">>

LowerCase == <<"a", "b", "c", "d", "e", "f", "g", "h", "i", "j", "k", "l", "m",
               "n", "o", "p", "q", "r", "s", "t", "u", "v", "w", "x", "y", "z">>

\* str.lower() on one character
LowerChar(c) ==
    IF \E i \in 1..Len(UpperCase) : UpperCase[i] = c
    THEN LowerCase[CHOOSE i \in 1..Len(UpperCase) : UpperCase[i] = c]
    ELSE c

\* str.lower()
Lower(s) == [i \in 1..Len(s) |-> LowerChar(s[i])]

\* `sub in s` on strings
Contains(s, sub) ==
    \E i \in 1..(Len(s) - Len(sub) + 1) : SubSeq(s, i, i + Len(sub) - 1) = sub

RECURSIVE ReplaceFirstOnly(_, _, _)
\* str.replace(old, new, 1): only the leftmost occurrence is replaced
ReplaceFirstOnly(s, old, new) ==
    IF Len(s) < Len(old) THEN s
    ELSE IF SubSeq(s, 1, Len(old)) = old
         THEN new \o SubSeq(s, Len(old) + 1, Len(s))
         ELSE <<Head(s)>> \o ReplaceFirstOnly(Tail(s), old, new)

RECURSIVE Replace(_, _, _)
\* str.replace(old, new) for a non-empty old: every non-overlapping
\* occurrence, scanning from the left
Replace(s, old, new) ==
    IF Len(s) < Len(old) THEN s
    ELSE IF SubSeq(s, 1, Len(old)) = old
         THEN new \o Replace(SubSeq(s, Len(old) + 1, Len(s)), old, new)
         ELSE <<Head(s)>> \o Replace(Tail(s), old, new)

(***************************************************************************)
(* Identity redaction engine: sanitize_vendor_data                         *)
(***************************************************************************)
VendorName == <<"C", "u", "s", "t", "o", "m", "e", "r", "S", "c", "o", "u", "t">>

PlatformName == <<"R", "y", "l", "i", "e", " ", "S", "E", "O">>

vendor_fields ==
    { <<"v", "e", "n", "d", "o", "r", "_", "i", "d">>,
      <<"c", "u", "s", "t", "o", "m", "e", "r", "s", "c", "o", "u", "t", "_", "i", "d">>,
      <<"c", "s", "_", "i", "d">>,
      <<"v", "e", "n", "d", "o", "r", "_", "n", "a", "m", "e">>,
      <<"v", "e", "n", "d", "o", "r", "_", "e", "m", "a", "i", "l">>,
      <<"v", "e", "n", "d", "o", "r", "_", "p", "h", "o", "n", "e">>,
      <<"v", "e", "n", "d", "o", "r", "_", "c", "o", "n", "t", "a", "c", "t">>,
      <<"c", "s", "_">> }

\* any(field in key.lower() for field in vendor_fields)
IsVendorKey(key) == \E field \in vendor_fields : Contains(Lower(key), field)

\* Values.  A str or a number is immutable and is held in place; a dict or a
\* list is an object of the store and is held by reference.
StrVal(s) == [t |-> "str", s |-> s]
NumVal(n) == [t |-> "num", n |-> n]
Ref(a) == [t |-> "ref", a |-> a]
DictObj(d) == [t |-> "dict", d |-> d]
ListObj(items) == [t |-> "list", items |-> items]

IsDictRef(h, c) == c.t = "ref" /\ h[c.a].t = "dict"
IsListRef(h, c) == c.t = "ref" /\ h[c.a].t = "list"

\* sanitized[key] = value
SetItem(h, a, key, value) ==
    [h EXCEPT ![a] = DictObj([k \in (DOMAIN h[a].d) \cup {key} |->
                                 IF k = key THEN value ELSE h[a].d[k]])]

\* del sanitized[key]
DelItem(h, a, key) ==
    [h EXCEPT ![a] = DictObj([k \in (DOMAIN h[a].d) \ {key} |-> h[a].d[k]])]

RECURSIVE SanitizeItems(_, _, _, _)
RECURSIVE SanitizeList(_, _, _)
RECURSIVE sanitize_vendor_data(_, _)

\* The variant that keeps the elements of a list of dicts as they are.
SanitizeListShallow(h, elems, acc) == [heap |-> h, items |-> elems]

\* [sanitize_vendor_data(item) for item in value]
SanitizeList(h, elems, acc) ==
    IF elems = <<>> THEN [heap |-> h, items |-> acc]
    ELSE LET r == sanitize_vendor_data(h, Head(elems).a)
         IN  SanitizeList(r.heap, Tail(elems), Append(acc, Ref(r.ref)))

\* for key, value in list(sanitized.items()): the items are a snapshot taken
\* before the loop; s is the address of `sanitized`
SanitizeItems(h, s, items, keys) ==
    IF keys = {} THEN h
    ELSE LET key == CHOOSE k \in keys : TRUE
             value == items[key]
             rest == keys \ {key}
         IN  IF IsVendorKey(key)
             THEN SanitizeItems(DelItem(h, s, key), s, items, rest)
             ELSE IF value.t = "str"
             THEN SanitizeItems(
                      SetItem(h, s, key,
                              StrVal(Replace(value.s, VendorName, PlatformName))),
                      s, items, rest)
             ELSE IF IsDictRef(h, value)
             THEN LET r == sanitize_vendor_data(h, value.a)
                  IN  SanitizeItems(SetItem(r.heap, s, key, Ref(r.ref)),
                                    s, items, rest)
             ELSE IF IsListRef(h, value)
                     /\ \A i \in 1..Len(h[value.a].items) :
                            IsDictRef(h, h[value.a].items[i])
             THEN LET r == SanitizeList(h, h[value.a].items, <<>>)
                      l == Len(r.heap) + 1
                  IN  SanitizeItems(
                          SetItem(Append(r.heap, ListObj(r.items)), s, key, Ref(l)),
                          s, items, rest)
             ELSE SanitizeItems(h, s, items, rest)

\* The variant without `sanitized = data.copy()`: the loop works on the
\* caller's dict itself.
sanitize_in_place(h, d) ==
    [heap |-> SanitizeItems(h, d, h[d].d, DOMAIN h[d].d), ref |-> d]

\* sanitize_vendor_data(data): d is the address of data; the result is the
\* store after the call and the address of the returned dict
sanitize_vendor_data(h, d) ==
    LET s == Len(h) + 1
        copied == Append(h, h[d])
    IN  [heap |-> SanitizeItems(copied, s, copied[s].d, DOMAIN copied[s].d),
         ref |-> s]

(***************************************************************************)
(* Payloads as values, and their layout in the object store                *)
(***************************************************************************)
RECURSIVE Deref(_, _)
\* the value held by cell c in store h, with every reference followed
Deref(h, c) ==
    IF c.t # "ref" THEN c
    ELSE IF h[c.a].t = "dict"
         THEN DictObj([k \in DOMAIN h[c.a].d |-> Deref(h, h[c.a].d[k])])
         ELSE ListObj([i \in 1..Len(h[c.a].items) |-> Deref(h, h[c.a].items[i])])

RECURSIVE AllocVal(_, _)
RECURSIVE AllocItems(_, _, _, _)
RECURSIVE AllocElems(_, _, _)

\* the entries of a dict value, one key after the other
AllocItems(h, d, keys, acc) ==
    IF keys = {} THEN [heap |-> h, d |-> acc]
    ELSE LET key == CHOOSE k \in keys : TRUE
             r == AllocVal(h, d[key])
         IN  AllocItems(r.heap, d, keys \ {key},
                        [k \in (DOMAIN acc) \cup {key} |->
                            IF k = key THEN r.cell ELSE acc[k]])

\* the elements of a list value, in order
AllocElems(h, elems, acc) ==
    IF elems = <<>> THEN [heap |-> h, items |-> acc]
    ELSE LET r == AllocVal(h, Head(elems))
         IN  AllocElems(r.heap, Tail(elems), Append(acc, r.cell))

\* a parsed payload (json / model.dict()) laid out as fresh objects: a tree,
\* no object is shared
AllocVal(h, v) ==
    IF v.t = "dict"
    THEN LET r == AllocItems(h, v.d, DOMAIN v.d, <<>>)
         IN  [heap |-> Append(r.heap, DictObj(r.d)), cell |-> Ref(Len(r.heap) + 1)]
    ELSE IF v.t = "list"
    THEN LET r == AllocElems(h, v.items, <<>>)
         IN  [heap |-> Append(r.heap, ListObj(r.items)), cell |-> Ref(Len(r.heap) + 1)]
    ELSE [heap |-> h, cell |-> v]

\* Bound: the number of entries (dict entries plus list elements, at all
\* depths together) of a payload handed to sanitize_vendor_data.
MaxEntries == 3

\* Keys of the payloads: a neutral one, one that matches "vendor_id" only
\* after lower-casing, and one that has "vendor" in it and matches no entry
\* of vendor_fields.
PayloadKeys ==
    << <<"n", "a", "m", "e">>,
       <<"V", "e", "n", "d", "o", "r", "_", "I", "D">>,
       <<"v", "e", "n", "d", "o", "r", "_", "i", "t", "e", "m">> >>

\* Scalars of the payloads: a string with two occurrences of the vendor's
\* name, and a number.
PayloadScalars ==
    { StrVal(VendorName \o <<" ">> \o VendorName), NumVal(1) }

WithItem(d, key, v) ==
    [k \in (DOMAIN d) \cup {key} |-> IF k = key THEN v ELSE d[k]]

RECURSIVE ValuesOfSize(_)
RECURSIVE DictsOfSize(_, _)
RECURSIVE ListsOfSize(_)

\* the dicts with n entries in all whose keys are among the first j keys
DictsOfSize(n, j) ==
    IF n = 0 THEN { <<>> }
    ELSE UNION { UNION { { WithItem(p[1], PayloadKeys[i], p[2]) :
                             p \in DictsOfSize(n - 1 - m, i - 1) \X ValuesOfSize(m) } :
                         m \in 0..(n - 1) } :
                 i \in 1..j }

\* the lists with n entries in all
ListsOfSize(n) ==
    IF n = 0 THEN { <<>> }
    ELSE UNION { { Append(p[1], p[2]) :
                     p \in ListsOfSize(n - 1 - m) \X ValuesOfSize(m) } :
                 m \in 0..(n - 1) }

ValuesOfSize(n) ==
    (IF n = 0 THEN PayloadScalars ELSE {})
        \cup { DictObj(d) : d \in DictsOfSize(n, Len(PayloadKeys)) }
        \cup { ListObj(l) : l \in ListsOfSize(n) }

\* every dict payload of at most MaxEntries entries
Payloads ==
    UNION { { DictObj(d) : d \in DictsOfSize(n, Len(PayloadKeys)) } : n \in 0..MaxEntries }

(***************************************************************************)
(* Text, integers and bytes as the guards use them                         *)
(***************************************************************************)
DigitChars == <<"0", "1", "2", "3", "4", "5", "6", "7", "8", "9">>

IsDigit(c) == \E i \in 1..Len(DigitChars) : DigitChars[i] = c

DigitValue(c) == (CHOOSE i \in 1..Len(DigitChars) : DigitChars[i] = c) - 1

IsDigits(s) == Len(s) > 0 /\ \A i \in 1..Len(s) : IsDigit(s[i])

RECURSIVE DigitsValue(_)
DigitsValue(s) ==
    IF s = <<>> THEN 0
    ELSE 10 * DigitsValue(SubSeq(s, 1, Len(s) - 1)) + DigitValue(s[Len(s)])

\* int(x) for a text without blanks and underscores: an optional sign and
\* decimal digits, ValueError (ok = FALSE) otherwise
ParseInt(s) ==
    IF IsDigits(s) THEN [ok |-> TRUE, n |-> DigitsValue(s)]
    ELSE IF Len(s) > 1 /\ s[1] = "-" /\ IsDigits(Tail(s))
         THEN [ok |-> TRUE, n |-> 0 - DigitsValue(Tail(s))]
    ELSE IF Len(s) > 1 /\ s[1] = "+" /\ IsDigits(Tail(s))
         THEN [ok |-> TRUE, n |-> DigitsValue(Tail(s))]
    ELSE [ok |-> FALSE, n |-> 0]

RECURSIVE IntToStr(_)
\* str(n)
IntToStr(n) ==
    IF n < 0 THEN <<"-">> \o IntToStr(0 - n)
    ELSE IF n < 10 THEN <<DigitChars[n + 1]>>
    ELSE IntToStr(n \div 10) \o <<DigitChars[(n % 10) + 1]>>

\* abs(n)
Abs(n) == IF n < 0 THEN 0 - n ELSE n

RECURSIVE Split(_, _)
\* s.split(sep) for a one-character separator
Split(s, sep) ==
    IF \A i \in 1..Len(s) : s[i] # sep THEN <<s>>
    ELSE LET i == CHOOSE k \in 1..Len(s) :
                      s[k] = sep /\ \A m \in 1..(k - 1) : s[m] # sep
         IN  <<SubSeq(s, 1, i - 1)>> \o Split(SubSeq(s, i + 1, Len(s)), sep)

\* The characters outside ASCII and the bytes outside ASCII that occur here:
\* the text character e-acute, its two UTF-8 bytes, and the byte FF, which
\* no UTF-8 text contains.
NonAsciiChar == "e-acute"
ByteC3 == "byte-C3"
ByteA9 == "byte-A9"
ByteFF == "byte-FF"

\* one character as UTF-8
EncodeChar(c) == IF c = NonAsciiChar THEN <<ByteC3, ByteA9>> ELSE <<c>>

RECURSIVE EncodeUtf8(_)
\* str.encode(): text -> bytes, the encodings of the characters in order
\* (the text is halved, not peeled, to keep the evaluation shallow)
EncodeUtf8(s) ==
    IF s = <<>> THEN <<>>
    ELSE IF Len(s) = 1 THEN EncodeChar(s[1])
    ELSE EncodeUtf8(SubSeq(s, 1, Len(s) \div 2))
             \o EncodeUtf8(SubSeq(s, (Len(s) \div 2) + 1, Len(s)))

\* a byte sequence is UTF-8 if FF does not occur in it, every C3 is followed
\* by A9 and every A9 follows a C3
IsUtf8(b) ==
    \A i \in 1..Len(b) :
        /\ b[i] # ByteFF
        /\ b[i] = ByteC3 => (i < Len(b) /\ b[i + 1] = ByteA9)
        /\ b[i] = ByteA9 => (i > 1 /\ b[i - 1] = ByteC3)

NotContinuation(byte) == byte # ByteA9

\* bytes.decode('utf-8'): bytes -> text, UnicodeDecodeError (ok = FALSE) on a
\* byte sequence that is not UTF-8
DecodeUtf8(b) ==
    IF IsUtf8(b)
    THEN LET lead == SelectSeq(b, NotContinuation)
         IN  [ok |-> TRUE,
              text |-> [i \in 1..Len(lead) |->
                           IF lead[i] = ByteC3 THEN NonAsciiChar ELSE lead[i]]]
    ELSE [ok |-> FALSE, text |-> <<>>]

(***************************************************************************)
(* Outcomes of a dependency or handler, and the responses they become      *)
(***************************************************************************)
Passed == [t |-> "pass"]
HttpError(status, detail) == [t |-> "http", status |-> status, detail |-> detail]
Raised(exc) == [t |-> "raise", exc |-> exc]

\* RequestValidationError: a required parameter of a dependency is missing
\* (Header(...) without the header)
RequestValidationError == [t |-> "invalid"]

NoResponse ==
    [status |-> 0, success |-> FALSE, error |-> "", detail |-> <<>>, task_id |-> <<>>]

\* The variant whose handler of Exception reports success.
ErrorResponseSwallowed(outcome) ==
    IF outcome.t = "http"
    THEN [status |-> outcome.status, success |-> FALSE,
          error |-> outcome.detail,
          detail |-> IF "text" \in DOMAIN outcome THEN outcome.text ELSE <<>>,
          task_id |-> <<>>]
    ELSE IF outcome.t = "invalid"
    THEN [status |-> 422, success |-> FALSE,
          error |-> "Field required", detail |-> <<>>, task_id |-> <<>>]
    ELSE [status |-> 200, success |-> TRUE, error |-> "", detail |-> <<>>, task_id |-> <<>>]

\* http_exception_handler, the framework's handler of
\* RequestValidationError (422) and general_exception_handler
ErrorResponse(outcome) ==
    IF outcome.t = "http"
    THEN [status |-> outcome.status, success |-> FALSE,
          error |-> outcome.detail,
          detail |-> IF "text" \in DOMAIN outcome THEN outcome.text ELSE <<>>,
          task_id |-> <<>>]
    ELSE IF outcome.t = "invalid"
    THEN [status |-> 422, success |-> FALSE,
          error |-> "Field required", detail |-> <<>>, task_id |-> <<>>]
    ELSE [status |-> 500, success |-> FALSE,
          error |-> "Internal server error", detail |-> <<>>, task_id |-> <<>>]

\* {"success": True, "message": ...}
SuccessResponse ==
    [status |-> 200, success |-> TRUE, error |-> "", detail |-> <<>>, task_id |-> <<>>]

(***************************************************************************)
(* Signature codec and freshness guard: verify_hmac                        *)
(***************************************************************************)
VENDOR_HMAC_SECRET == "vendor-hmac-secret"

\* hmac.new(key, message, hashlib.sha256).hexdigest(): the digest is kept as
\* the pair it was computed from, so two digests are equal exactly when key
\* and message are (no collisions)
Hmac(key, message) == [t |-> "hex", key |-> key, message |-> message]

\* a header value that is not a digest
Text(s) == [t |-> "txt", s |-> s]

\* a digest is 64 hexadecimal digits; any other text is ASCII if each of its
\* characters is
IsAscii(v) == v.t = "hex" \/ \A i \in 1..Len(v.s) : v.s[i] # NonAsciiChar

\* The variant that signs the body alone, without the timestamp.
SignedMessageBodyOnly(timestamp, body) == body

\* f"{x_vendor_timestamp}.{body.decode('utf-8')}"
SignedMessage(timestamp, body) == timestamp \o <<".">> \o body

\* the freshness window, in seconds
Window == 300

\* The variant with the boundary excluded.
IsExpiredAtBoundary(current_time, timestamp) == Abs(current_time - timestamp) >= Window

\* abs(current_time - timestamp) > 300
IsExpired(current_time, timestamp) == Abs(current_time - timestamp) > Window

\* verify_hmac(request, x_vendor_signature, x_vendor_timestamp) at clock
\* reading current_time; body is request.body()
verify_hmac(body, x_vendor_signature, x_vendor_timestamp, current_time) ==
    LET decoded == DecodeUtf8(body)
        message == SignedMessage(x_vendor_timestamp, decoded.text)
        computed_signature == Hmac(VENDOR_HMAC_SECRET, EncodeUtf8(message))
        timestamp == ParseInt(x_vendor_timestamp)
    IN  IF ~decoded.ok THEN Raised("UnicodeDecodeError")
        ELSE IF ~IsAscii(x_vendor_signature) THEN Raised("TypeError")
        ELSE IF computed_signature # x_vendor_signature
             THEN HttpError(401, "Invalid signature")
        ELSE IF ~timestamp.ok THEN HttpError(401, "Invalid timestamp format")
        ELSE IF IsExpired(current_time, timestamp.n)
             THEN HttpError(401, "Expired timestamp")
        ELSE Passed

(***************************************************************************)
(* Network provenance guard: verify_ip_allowlist                           *)
(***************************************************************************)
\* IPv4Address(s): four decimal octets, AddressValueError (ok = FALSE)
\* otherwise
IPv4Address(s) ==
    LET parts == Split(s, ".")
    IN  IF /\ Len(parts) = 4
           /\ \A i \in 1..4 :
                  /\ IsDigits(parts[i])
                  /\ Len(parts[i]) <= 3
                  /\ Len(parts[i]) > 1 => parts[i][1] # "0"
                  /\ DigitsValue(parts[i]) <= 255
        THEN [ok |-> TRUE, o |-> [i \in 1..4 |-> DigitsValue(parts[i])]]
        ELSE [ok |-> FALSE, o |-> <<>>]

\* IPv4Network("a.b.c.d/n")
IPv4Network(s) ==
    LET parts == Split(s, "/")
    IN  [o |-> IPv4Address(parts[1]).o, prefix |-> DigitsValue(parts[2])]

RECURSIVE Pow2(_)
Pow2(n) == IF n = 0 THEN 1 ELSE 2 * Pow2(n - 1)

\* how many of the network's prefix bits fall into octet i
PrefixBits(prefix, i) ==
    IF prefix >= 8 * i THEN 8
    ELSE IF prefix <= 8 * (i - 1) THEN 0
    ELSE prefix - 8 * (i - 1)

\* The variant that compares only the octets the prefix covers entirely.
InNetworkWholeOctets(o, network) ==
    \A i \in 1..4 : 8 * i <= network.prefix => o[i] = network.o[i]

\* `address in network`
InNetwork(o, network) ==
    \A i \in 1..4 :
        o[i] \div Pow2(8 - PrefixBits(network.prefix, i))
            = network.o[i] \div Pow2(8 - PrefixBits(network.prefix, i))

\* ALLOWED_IPS, the default of the environment variable
ALLOWED_IPS == { <<"1", "2", "7", ".", "0", ".", "0", ".", "1", "/", "3", "2">>, <<"1", "0", ".", "0", ".", "0", ".", "0", "/", "8">> }

\* [IPv4Network(ip) for ip in ALLOWED_IPS]
Networks(allowed_ips) == { IPv4Network(ip) : ip \in allowed_ips }

ALLOWED_IP_NETWORKS == Networks(ALLOWED_IPS)

\* The variant without the exemption of the loopback addresses.
verify_ip_no_exemption(client_ip, networks) ==
    IF ~IPv4Address(client_ip).ok THEN HttpError(403, "Invalid IP format")
    ELSE IF \E network \in networks : InNetwork(IPv4Address(client_ip).o, network)
         THEN Passed
    ELSE HttpError(403, "IP not in allowlist")

\* the body of verify_ip_allowlist for the networks of the configuration
verify_ip(client_ip, networks) ==
    IF client_ip = <<"1", "2", "7", ".", "0", ".", "0", ".", "1">> \/ client_ip = <<":", ":", "1">> THEN Passed
    ELSE IF ~IPv4Address(client_ip).ok THEN HttpError(403, "Invalid IP format")
    ELSE IF \E network \in networks : InNetwork(IPv4Address(client_ip).o, network)
         THEN Passed
    ELSE HttpError(403, "IP not in allowlist")

\* verify_ip_allowlist(request), client_ip is request.client.host
verify_ip_allowlist(client_ip) == verify_ip(client_ip, ALLOWED_IP_NETWORKS)

(***************************************************************************)
(* Tenant token verifier: verify_internal_jwt                              *)
(***************************************************************************)
JWT_SECRET == "jwt-secret"

\* jwt.encode(claims, key, algorithm="HS256"): the token is kept as the key
\* and the claim set it was made from
Jwt(key, claims) == [t |-> "jwt", key |-> key, claims |-> claims]

\* The variant that decodes a token without verifying its signature.
jwt_decode_unverified(token, key, current_time) ==
    IF /\ token.t = "jwt"
       /\ "exp" \in DOMAIN token.claims => token.claims.exp > current_time
    THEN [ok |-> TRUE, payload |-> token.claims]
    ELSE [ok |-> FALSE, payload |-> <<>>]

\* jwt.decode(token, key, algorithms=["HS256"]) at clock reading
\* current_time: the signature must verify under key and an exp claim must
\* lie in the future; PyJWTError (ok = FALSE) otherwise
jwt_decode(token, key, current_time) ==
    IF /\ token.t = "jwt"
       /\ token.key = key
       /\ "exp" \in DOMAIN token.claims => token.claims.exp > current_time
    THEN [ok |-> TRUE, payload |-> token.claims]
    ELSE [ok |-> FALSE, payload |-> <<>>]

Returned(value) == [t |-> "pass", value |-> value]

\* verify_internal_jwt(authorization); the header is the token with or
\* without the prefix "Bearer ", which is removed
verify_internal_jwt(authorization, current_time) ==
    LET token == authorization.token
        decoded == jwt_decode(token, JWT_SECRET, current_time)
    IN  IF ~decoded.ok THEN HttpError(401, "Invalid token")
        ELSE IF "sandbox_id" \notin DOMAIN decoded.payload
             THEN HttpError(401, "Invalid token: missing sandbox_id")
        ELSE Returned(decoded.payload)

\* The variant that never finds a mismatch.
SandboxMismatchIgnored(claims, task) == FALSE

\* jwt_payload["sandbox_id"] != task.sandbox_id
SandboxMismatch(claims, task) == claims.sandbox_id # task.sandbox_id

(***************************************************************************)
(* Messages                                                                *)
(***************************************************************************)
K_request_id == <<"r", "e", "q", "u", "e", "s", "t", "_", "i", "d">>
K_report_type == <<"r", "e", "p", "o", "r", "t", "_", "t", "y", "p", "e">>
K_title == <<"t", "i", "t", "l", "e">>
K_summary == <<"s", "u", "m", "m", "a", "r", "y">>
K_report_url == <<"r", "e", "p", "o", "r", "t", "_", "u", "r", "l">>
K_metrics == <<"m", "e", "t", "r", "i", "c", "s">>
K_details == <<"d", "e", "t", "a", "i", "l", "s">>
K_publish_type == <<"p", "u", "b", "l", "i", "s", "h", "_", "t", "y", "p", "e">>
K_description == <<"d", "e", "s", "c", "r", "i", "p", "t", "i", "o", "n">>
K_published_url == <<"p", "u", "b", "l", "i", "s", "h", "e", "d", "_", "u", "r", "l">>
K_publish_date == <<"p", "u", "b", "l", "i", "s", "h", "_", "d", "a", "t", "e">>
K_file_type == <<"f", "i", "l", "e", "_", "t", "y", "p", "e">>
K_filename == <<"f", "i", "l", "e", "n", "a", "m", "e">>
K_content_type == <<"c", "o", "n", "t", "e", "n", "t", "_", "t", "y", "p", "e">>
K_size == <<"s", "i", "z", "e">>
K_sandbox_id == <<"s", "a", "n", "d", "b", "o", "x", "_", "i", "d">>
K_task_type == <<"t", "a", "s", "k", "_", "t", "y", "p", "e">>
K_priority == <<"p", "r", "i", "o", "r", "i", "t", "y">>
K_deadline == <<"d", "e", "a", "d", "l", "i", "n", "e">>
K_vendor_name == <<"v", "e", "n", "d", "o", "r", "_", "n", "a", "m", "e">>
K_vendor_contact == <<"v", "e", "n", "d", "o", "r", "_", "c", "o", "n", "t", "a", "c", "t">>
K_vendor_item == <<"v", "e", "n", "d", "o", "r", "_", "i", "t", "e", "m">>
K_url == <<"u", "r", "l">>

NoneVal == [t |-> "none"]

\* SeoReport.dict()
ReportDict(report) ==
    DictObj(K_request_id :> StrVal(report.request_id)
         @@ K_report_type :> StrVal(<<"p", "a", "g", "e">>)
         @@ K_title :> StrVal(report.title)
         @@ K_summary :> StrVal(report.summary)
         @@ K_report_url :> NoneVal
         @@ K_metrics :> NoneVal
         @@ K_details :> report.details)

\* PublishNotification.dict()
PublishDict(notification) ==
    DictObj(K_request_id :> StrVal(notification.request_id)
         @@ K_publish_type :> StrVal(<<"p", "a", "g", "e">>)
         @@ K_title :> StrVal(notification.title)
         @@ K_description :> StrVal(notification.description)
         @@ K_published_url :> StrVal(<<"/", "x">>)
         @@ K_publish_date :> StrVal(<<"2", "0", "2", "5", "-", "0", "6", "-", "1", "0">>)
         @@ K_details :> notification.details)

\* the payload receive_vendor_file logs
FileDict(form) ==
    DictObj(K_request_id :> StrVal(form.request_id)
         @@ K_file_type :> StrVal(form.file_type)
         @@ K_filename :> StrVal(form.filename)
         @@ K_content_type :> StrVal(form.content_type)
         @@ K_size :> NumVal(Len(form.content)))

\* SeoTask.dict()
TaskDict(task) ==
    DictObj(K_request_id :> StrVal(task.request_id)
         @@ K_sandbox_id :> StrVal(task.sandbox_id)
         @@ K_task_type :> StrVal(<<"p", "a", "g", "e">>)
         @@ K_title :> StrVal(task.title)
         @@ K_description :> StrVal(task.description)
         @@ K_priority :> StrVal(<<"m", "e", "d", "i", "u", "m">>)
         @@ K_deadline :> NoneVal
         @@ K_details :> DictObj(<<>>))

\* a report that names the vendor, as MOCK_SEO_REPORT does
ReportFromVendor ==
    [request_id |-> <<"r", "1">>,
     title |-> <<"r", "e", "p", "o", "r", "t">>,
     summary |-> <<"b", "y", " ">> \o VendorName,
     details |-> DictObj(K_url :> StrVal(<<"/", "x">>) @@ K_vendor_name :> StrVal(VendorName))]

\* a report without vendor data
PlainReport ==
    [request_id |-> <<"r", "2">>,
     title |-> <<"r", "e", "p", "o", "r", "t">>,
     summary |-> <<"d", "o", "n", "e">>,
     details |-> DictObj(K_url :> StrVal(<<"/", "x">>))]

\* a publish notification with vendor fields, as MOCK_PUBLISH_NOTIFICATION,
\* and with the field vendor_item of the redaction test
PublishFromVendor ==
    [request_id |-> <<"r", "1">>,
     title |-> <<"p", "a", "g", "e">>,
     description |-> <<"l", "i", "v", "e">>,
     details |-> DictObj(K_vendor_contact :> StrVal(<<"s", "u", "p", "p", "o", "r", "t">>)
                      @@ K_vendor_item :> StrVal(<<"x">>))]

TextFile ==
    [request_id |-> <<"r", "1">>, file_type |-> <<"c", "s", "v">>, filename |-> <<"a", ".", "c", "s", "v">>,
     content_type |-> <<"t", "e", "x", "t", "/", "c", "s", "v">>, content |-> <<"a", ",", "b">>]

BinaryFile ==
    [request_id |-> <<"r", "2">>, file_type |-> <<"p", "d", "f">>, filename |-> <<"a", ".", "p", "d", "f">>,
     content_type |-> <<"a", "p", "p", "l", "i", "c", "a", "t", "i", "o", "n", "/", "p", "d", "f">>, content |-> <<"%", "P", "D", "F", ByteFF>>]

\* The inbound messages: the kind of endpoint, the raw request body and
\* what the framework parsed from it.  The body of a JSON message is the
\* UTF-8 encoding of its text; the multipart body of a file carries the
\* file's bytes.
InboundMessages ==
    { [kind |-> "report", body |-> EncodeUtf8(<<"{", "r", "e", "p", "o", "r", "t", " ", "r", "1", "}">>), parsed |-> ReportFromVendor],
      [kind |-> "report", body |-> EncodeUtf8(<<"{", NonAsciiChar, "}">>), parsed |-> PlainReport],
      [kind |-> "publish", body |-> EncodeUtf8(<<"{", "p", "u", "b", "l", "i", "s", "h", " ", "r", "1", "}">>), parsed |-> PublishFromVendor],
      [kind |-> "file", body |-> EncodeUtf8(<<"-", "-", "f", "i", "l", "e", " ", "a", ",", "b">>), parsed |-> TextFile],
      [kind |-> "file", body |-> <<"-", "-", "f", "i", "l", "e", " ">> \o BinaryFile.content, parsed |-> BinaryFile] }

\* Bound: the clock reading at the start.
StartTime == 1000

\* Bound: how many seconds the clock advances.
MaxTicks == 2

\* Bound: how many requests the relay receives.
MaxRequests == 2

Reqs == 1..MaxRequests

\* the values of X-Vendor-Timestamp: around both edges of the window as
\* seen from the clock readings, and a text that is no integer
Timestamps ==
    { IntToStr(StartTime - Window - 1), IntToStr(StartTime - Window),
      IntToStr(StartTime), IntToStr(StartTime + Window),
      IntToStr(StartTime + Window + 1), IntToStr(StartTime + MaxTicks + Window + 1),
      <<"s", "o", "o", "n">> }

\* request.client.host: loopback in both families, an address inside
\* 10.0.0.0/8, one outside every network, and an IPv6 address
Hosts == { <<"1", "2", "7", ".", "0", ".", "0", ".", "1">>, <<":", ":", "1">>, <<"1", "0", ".", "0", ".", "0", ".", "5">>, <<"1", "9", "2", ".", "1", "6", "8", ".", "1", ".", "1">>, <<"2", "0", "0", "1", ":", "d", "b", "8", ":", ":", "1">> }

\* the signature the vendor computes for its message: HMAC over
\* timestamp + "." + raw body
VendorSign(key, timestamp, body) ==
    Hmac(key, EncodeUtf8(timestamp) \o <<".">> \o body)

\* the signature as forward_to_vendor and the tests compute it:
\* message = f"{timestamp}.{body}", hmac.new(key, message.encode(), sha256)
sign(key, timestamp, text) == Hmac(key, EncodeUtf8(timestamp \o <<".">> \o text))

\* the values of X-Vendor-Signature sent with a message and a timestamp: the
\* right one, one made with another key, one made for another timestamp,
\* and texts that are no digest
Signatures(timestamp, body) ==
    { VendorSign(VENDOR_HMAC_SECRET, timestamp, body),
      VendorSign("another-secret", timestamp, body),
      VendorSign(VENDOR_HMAC_SECRET, IntToStr(StartTime + 1), body),
      Text(<<"i", "n", "v", "a", "l", "i", "d", "-", "s", "i", "g", "n", "a", "t", "u", "r", "e">>),
      Text(<<"s", "i", "g", NonAsciiChar>>) }

\* the requests that carry both headers
SignedEnvelopes ==
    UNION { UNION { UNION { { [kind |-> m.kind, client |-> host, signature |-> s,
                               timestamp |-> ts, body |-> m.body, parsed |-> m.parsed,
                               absent |-> {}] :
                                s \in Signatures(ts, m.body) } :
                            ts \in Timestamps } :
                    host \in Hosts } :
            m \in InboundMessages }

\* the headers verify_hmac declares with Header(...)
HmacHeaders == {"x-vendor-signature", "x-vendor-timestamp"}

\* the requests that lack one of the headers or both; a header that is
\* present has the value the vendor would send at StartTime
HeaderlessEnvelopes ==
    UNION { UNION { { [kind |-> m.kind, client |-> host,
                       signature |-> IF "x-vendor-signature" \in missing
                                     THEN Text(<<>>)
                                     ELSE VendorSign(VENDOR_HMAC_SECRET, IntToStr(StartTime), m.body),
                       timestamp |-> IF "x-vendor-timestamp" \in missing
                                     THEN <<>>
                                     ELSE IntToStr(StartTime),
                       body |-> m.body, parsed |-> m.parsed, absent |-> missing] :
                        missing \in (SUBSET HmacHeaders) \ {{}} } :
                    host \in Hosts } :
            m \in InboundMessages }

\* every request the vendor side can send
Envelopes == SignedEnvelopes \cup HeaderlessEnvelopes

T1 == <<"T", "1">>
T2 == <<"T", "2">>

\* the tokens of the Authorization header
Tokens ==
    { Jwt(JWT_SECRET, [sandbox_id |-> T1, exp |-> StartTime + 3600]),
      Jwt(JWT_SECRET, [sandbox_id |-> T2, exp |-> StartTime + 3600]),
      Jwt(JWT_SECRET, [sandbox_id |-> T1, exp |-> StartTime + 1]),
      Jwt(JWT_SECRET, [sub |-> <<"1", "2", "3">>, exp |-> StartTime + 3600]),
      Jwt("another-secret", [sandbox_id |-> T1, exp |-> StartTime + 3600]),
      Text(<<"i", "n", "v", "a", "l", "i", "d", "-", "t", "o", "k", "e", "n">>) }

\* every task submission an internal caller can send
TaskRequests ==
    { [kind |-> "task", authorization |-> [bearer |-> b, token |-> tok],
       task |-> [request_id |-> <<"r", "1">>, sandbox_id |-> sb,
                 title |-> <<"p", "a", "g", "e">>, description |-> <<"n", "e", "w">>]] :
        b \in BOOLEAN, tok \in Tokens, sb \in {T1, T2} }

\* what the vendor API does with a forwarded call: a 2xx response with a
\* JSON body or another body, an error status with a body, or no response
\* (connection refused, timeout, DNS)
VendorResults ==
    { [t |-> "ok", status |-> 200, text |-> <<"{", "}">>],
      [t |-> "ok", status |-> 200, text |-> <<"O", "K">>],
      [t |-> "status", status |-> 422, text |-> <<"b", "a", "d">>],
      [t |-> "status", status |-> 500, text |-> VendorName],
      [t |-> "down", status |-> 0, text |-> <<>>] }

\* sanitize_vendor_data applied to a payload given as a value
Redact(payload) ==
    LET a == AllocVal(<<>>, payload)
        r == sanitize_vendor_data(a.heap, a.cell.a)
    IN  Deref(r.heap, Ref(r.ref))

\* the payloads the report and publish handlers pass to sanitize_vendor_data
HandlerPayloads ==
    { IF m.kind = "report" THEN ReportDict(m.parsed) ELSE PublishDict(m.parsed) :
          m \in { x \in InboundMessages : x.kind # "file" } }

RECURSIVE RedactAll(_)
RedactAll(payloads) ==
    LET payload == CHOOSE x \in payloads : TRUE
        rest == payloads \ {payload}
    IN  IF rest = {} THEN payload :> Redact(payload)
        ELSE (payload :> Redact(payload)) @@ RedactAll(rest)

\* sanitize_vendor_data on each of these payloads, computed once
Redacted == RedactAll(HandlerPayloads)

(***************************************************************************)
(* Audit sink and outbound relay client                                    *)
(***************************************************************************)
\* VendorCommunication(id=str(uuid4()), ..., processed=False); the fresh id
\* is the number of the row
VendorCommunication(id, direction, message_type, payload, request_id, hmac_signature, ip_address) ==
    [id |-> id, request_id |-> request_id, direction |-> direction,
     message_type |-> message_type, payload |-> payload,
     hmac_signature |-> hmac_signature, ip_address |-> ip_address,
     processed |-> FALSE]

\* The variant that adds the row to the session and never commits it.
log_uncommitted(table, direction, message_type, payload, request_id, hmac_signature, ip_address) == table

\* The variant that records a signed envelope once: a row with the same
\* signature is not written again.
log_once(table, direction, message_type, payload, request_id, hmac_signature, ip_address) ==
    IF \E i \in 1..Len(table) : hmac_signature # NoneVal /\ table[i].hmac_signature = hmac_signature
    THEN table
    ELSE Append(table,
                VendorCommunication(Len(table) + 1, direction, message_type, payload,
                                    request_id, hmac_signature, ip_address))

\* The variant that stores the payload as sanitize_vendor_data returns it.
log_sanitized(table, direction, message_type, payload, request_id, hmac_signature, ip_address) ==
    Append(table,
           VendorCommunication(Len(table) + 1, direction, message_type,
                               IF payload \in DOMAIN Redacted THEN Redacted[payload] ELSE payload,
                               request_id, hmac_signature, ip_address))

\* The variant that keeps one row per request_id and direction: a later
\* message replaces the row of an earlier one.
log_upsert(table, direction, message_type, payload, request_id, hmac_signature, ip_address) ==
    LET same == { i \in 1..Len(table) : table[i].request_id = request_id /\ table[i].direction = direction }
        row == VendorCommunication(Len(table) + 1, direction, message_type, payload, request_id, hmac_signature, ip_address)
    IN  IF same = {} THEN Append(table, row)
        ELSE Append([i \in 1..Len(table) |-> IF i \in same THEN row ELSE table[i]], row)

\* log_communication(db, ...): db.add(comm); db.commit().  The result is
\* the table after the commit.
log_communication(table, direction, message_type, payload, request_id, hmac_signature, ip_address) ==
    Append(table,
           VendorCommunication(Len(table) + 1, direction, message_type, payload,
                               request_id, hmac_signature, ip_address))

RECURSIVE JsonEncode(_, _, _)
RECURSIVE JsonItems(_, _, _, _)
RECURSIVE JsonElems(_, _, _)

\* the entries of a dict: "key" key_separator value, item_separator between
JsonItems(d, keys, item_separator, key_separator) ==
    IF keys = {} THEN <<>>
    ELSE LET key == CHOOSE k \in keys : TRUE
             rest == keys \ {key}
         IN  <<"\"">> \o key \o <<"\"">> \o key_separator
                 \o JsonEncode(d[key], item_separator, key_separator)
                 \o (IF rest = {} THEN <<>>
                     ELSE item_separator \o JsonItems(d, rest, item_separator, key_separator))

\* the elements of a list, item_separator between
JsonElems(elems, item_separator, key_separator) ==
    IF elems = <<>> THEN <<>>
    ELSE JsonEncode(Head(elems), item_separator, key_separator)
             \o (IF Len(elems) = 1 THEN <<>>
                 ELSE item_separator \o JsonElems(Tail(elems), item_separator, key_separator))

\* json.dumps(v, separators=(item_separator, key_separator)) for texts that
\* need no escape
JsonEncode(v, item_separator, key_separator) ==
    IF v.t = "str" THEN <<"\"">> \o v.s \o <<"\"">>
    ELSE IF v.t = "num" THEN IntToStr(v.n)
    ELSE IF v.t = "none" THEN <<"n", "u", "l", "l">>
    ELSE IF v.t = "dict"
         THEN <<"{">> \o JsonItems(v.d, DOMAIN v.d, item_separator, key_separator) \o <<"}">>
    ELSE <<"[">> \o JsonElems(v.items, item_separator, key_separator) \o <<"]">>

\* json.dumps(data): the separators are ", " and ": "
JsonDumps(v) == JsonEncode(v, <<",", " ">>, <<":", " ">>)

\* the compact form, separators "," and ":"
JsonCompact(v) == JsonEncode(v, <<",">>, <<":">>)

\* httpx serializes json=data itself: with json.dumps(data) up to httpx
\* 0.27, in the compact form from httpx 0.28 on; the version is not pinned
HttpxJson == {"default", "compact"}

\* client.post(url, json=data): the bytes httpx makes of data for the
\* request body
RequestContent(payload, serializer) ==
    IF serializer = "compact" THEN EncodeUtf8(JsonCompact(payload))
    ELSE EncodeUtf8(JsonDumps(payload))

\* the request forward_to_vendor(endpoint, data) posts at clock reading
\* current_time with the request body content; response is the vendor's
\* answer, none while the call is in flight
VendorCall(p, endpoint, payload, current_time, content) ==
    [by |-> p, endpoint |-> endpoint, json |-> payload, content |-> content,
     x_timestamp |-> IntToStr(current_time),
     x_signature |-> sign(VENDOR_HMAC_SECRET, IntToStr(current_time), JsonDumps(payload)),
     response |-> NoneVal]

\* The variant that posts the request a second time.
client_post_twice(sent, call) == Append(Append(sent, call), call)

\* await client.post(url, json=data, headers=headers): one request
client_post(sent, call) == Append(sent, call)

\* HTTPException(status_code=e.response.status_code,
\*               detail=f"Vendor API error: {e.response.text}")
VendorRejected(status, text) ==
    [t |-> "http", status |-> status, detail |-> "Vendor API error", text |-> text]

\* response.json(): the body of the response must be a JSON document
IsJson(text) == text # <<>> /\ Head(text) \in {"{", "["}

\* The variant that maps every vendor error status to 502.
forward_to_vendor_502(result) ==
    IF result.t = "ok" THEN Returned(result.text)
    ELSE IF result.t = "status" THEN VendorRejected(502, result.text)
    ELSE HttpError(503, "Vendor API unavailable")

\* The variant that returns whatever the vendor answered.
forward_to_vendor_unchecked(result) == Returned(result.text)

\* forward_to_vendor from the vendor's answer on: raise_for_status,
\* response.json() and the two except clauses
forward_to_vendor(result) ==
    IF result.t = "ok"
    THEN IF IsJson(result.text) THEN Returned(result.text)
         ELSE Raised("JSONDecodeError")
    ELSE IF result.t = "status" THEN VendorRejected(result.status, result.text)
    ELSE HttpError(503, "Vendor API unavailable")

(***************************************************************************)
(* The relay: requests, their dependencies and their handlers              *)
(***************************************************************************)
NoRequest == [kind |-> "none"]

\* no claims yet
NoClaims == [none |-> TRUE]

\* the clock of the monitor's host when the monitor is constructed
MonitorStart == 100000

\* BudgetMonitor.__init__: no sandbox has been alerted, nothing was sent
InitMonitor ==
    /\ time_time = MonitorStart
    /\ alerted_sandboxes = <<>>
    /\ exceeding_sandboxes = <<>>
    /\ slack_posts = <<>>
    /\ checks = 0
    /\ asleep = FALSE

InitRelay ==
    /\ InitMonitor
    /\ now = StartTime
    /\ rq = [p \in Reqs |-> NoRequest]
    /\ pc = [p \in Reqs |-> "idle"]
    /\ resp = [p \in Reqs |-> NoResponse]
    /\ audit = <<>>
    /\ wrote = [p \in Reqs |-> {}]
    /\ handed = [p \in Reqs |-> NoneVal]
    /\ jwt_payload = [p \in Reqs |-> NoClaims]
    /\ calls = <<>>

\* the network guard has not been called
NotRun == [t |-> "none"]

\* the configuration is the default and the guard runs inside the requests
InitDefaultAllowlist ==
    /\ allowlist = ALLOWED_IPS
    /\ peer = <<>>
    /\ verdict = NotRun

\* no call of sanitize_vendor_data outside the handlers
InitNoCaller ==
    /\ InitDefaultAllowlist
    /\ heap = <<>>
    /\ data = 0
    /\ input = DictObj(<<>>)
    /\ sanitized = 0
    /\ resanitized = 0
    /\ spc = "none"

\* time.time() advances
Tick ==
    /\ now < StartTime + MaxTicks
    /\ now' = now + 1
    /\ UNCHANGED <<rq, pc, resp, audit, wrote, handed, jwt_payload, calls>>
    /\ UNCHANGED <<httpx_json, svars, avars, mvars>>

\* the next request reaches the application; FastAPI resolves the
\* dependencies of its endpoint in the order of the parameters
Arrive(p, r) ==
    /\ pc[p] = "idle"
    /\ \A q \in Reqs : q < p => pc[q] # "idle"
    /\ rq' = [rq EXCEPT ![p] = r]
    /\ pc' = [pc EXCEPT ![p] = IF r.kind = "task" THEN "verify_internal_jwt"
                                                   ELSE "verify_hmac"]
    /\ UNCHANGED <<now, resp, audit, wrote, handed, jwt_payload, calls>>
    /\ UNCHANGED <<httpx_json, svars, avars, mvars>>

\* an HTTPException or another exception ends the request
Reject(p, outcome) ==
    /\ resp' = [resp EXCEPT ![p] = ErrorResponse(outcome)]
    /\ pc' = [pc EXCEPT ![p] = "done"]

\* Depends(verify_hmac): the dependency is called when the framework found
\* both of its headers; when one is missing the framework records the
\* validation error and goes on with the next dependency
VerifyHmac(p) ==
    /\ pc[p] = "verify_hmac"
    /\ IF rq[p].absent # {}
       THEN /\ pc' = [pc EXCEPT ![p] = "verify_ip_allowlist"]
            /\ UNCHANGED resp
       ELSE LET outcome == verify_hmac(rq[p].body, rq[p].signature, rq[p].timestamp, now)
            IN  IF outcome.t = "pass"
                THEN /\ pc' = [pc EXCEPT ![p] = "verify_ip_allowlist"]
                     /\ UNCHANGED resp
                ELSE Reject(p, outcome)
    /\ UNCHANGED <<now, rq, audit, wrote, handed, jwt_payload, calls>>
    /\ UNCHANGED <<httpx_json, svars, avars, mvars>>

\* Depends(verify_ip_allowlist); once the dependencies are resolved, the
\* validation errors recorded on the way end the request before the handler
VerifyIpAllowlist(p) ==
    /\ pc[p] = "verify_ip_allowlist"
    /\ LET outcome == verify_ip_allowlist(rq[p].client)
       IN  IF outcome.t # "pass" THEN Reject(p, outcome)
           ELSE IF rq[p].absent # {} THEN Reject(p, RequestValidationError)
           ELSE /\ pc' = [pc EXCEPT ![p] = "handler"]
                /\ UNCHANGED resp
    /\ UNCHANGED <<now, rq, audit, wrote, handed, jwt_payload, calls>>
    /\ UNCHANGED <<httpx_json, svars, avars, mvars>>

\* the rows p committed with this step
Committed(p) ==
    [wrote EXCEPT ![p] = @ \cup ((Len(audit) + 1)..Len(audit'))]

\* receive_seo_report
ReceiveSeoReport(p) ==
    /\ pc[p] = "handler"
    /\ rq[p].kind = "report"
    /\ audit' = log_communication(audit, "inbound", "report",
                                  ReportDict(rq[p].parsed), rq[p].parsed.request_id,
                                  rq[p].signature, Text(rq[p].client))
    /\ wrote' = Committed(p)
    /\ handed' = [handed EXCEPT ![p] = Redacted[ReportDict(rq[p].parsed)]]
    /\ resp' = [resp EXCEPT ![p] = SuccessResponse]
    /\ pc' = [pc EXCEPT ![p] = "done"]
    /\ UNCHANGED <<now, rq, jwt_payload, calls>>
    /\ UNCHANGED <<httpx_json, svars, avars, mvars>>

\* receive_publish_notification
ReceivePublishNotification(p) ==
    /\ pc[p] = "handler"
    /\ rq[p].kind = "publish"
    /\ audit' = log_communication(audit, "inbound", "publish",
                                  PublishDict(rq[p].parsed), rq[p].parsed.request_id,
                                  rq[p].signature, Text(rq[p].client))
    /\ wrote' = Committed(p)
    /\ handed' = [handed EXCEPT ![p] = Redacted[PublishDict(rq[p].parsed)]]
    /\ resp' = [resp EXCEPT ![p] = SuccessResponse]
    /\ pc' = [pc EXCEPT ![p] = "done"]
    /\ UNCHANGED <<now, rq, jwt_payload, calls>>
    /\ UNCHANGED <<httpx_json, svars, avars, mvars>>

\* receive_vendor_file
ReceiveVendorFile(p) ==
    /\ pc[p] = "handler"
    /\ rq[p].kind = "file"
    /\ audit' = log_communication(audit, "inbound", "file",
                                  FileDict(rq[p].parsed), rq[p].parsed.request_id,
                                  rq[p].signature, Text(rq[p].client))
    /\ wrote' = Committed(p)
    /\ resp' = [resp EXCEPT ![p] = SuccessResponse]
    /\ pc' = [pc EXCEPT ![p] = "done"]
    /\ UNCHANGED <<now, rq, handed, jwt_payload, calls>>
    /\ UNCHANGED <<httpx_json, svars, avars, mvars>>

\* Depends(verify_internal_jwt)
VerifyInternalJwt(p) ==
    /\ pc[p] = "verify_internal_jwt"
    /\ LET outcome == verify_internal_jwt(rq[p].authorization, now)
       IN  IF outcome.t = "pass"
           THEN /\ jwt_payload' = [jwt_payload EXCEPT ![p] = outcome.value]
                /\ pc' = [pc EXCEPT ![p] = "handler"]
                /\ UNCHANGED resp
           ELSE /\ Reject(p, outcome)
                /\ UNCHANGED jwt_payload
    /\ UNCHANGED <<now, rq, audit, wrote, handed, calls>>
    /\ UNCHANGED <<httpx_json, svars, avars, mvars>>

\* The variant that writes the outbound record before the binding check.
audit_task_first(table, claims, task) ==
    log_communication(table, "outbound", "task", TaskDict(task), task.request_id, NoneVal, NoneVal)

\* the table when submit_seo_task raises or reaches forward_to_vendor: the
\* outbound record is written after the binding check has passed
audit_task(table, claims, task) ==
    IF SandboxMismatch(claims, task) THEN table
    ELSE log_communication(table, "outbound", "task", TaskDict(task), task.request_id, NoneVal, NoneVal)

\* submit_seo_task up to the call of forward_to_vendor: the binding check
\* and the outbound audit record
SubmitSeoTask(p) ==
    /\ pc[p] = "handler"
    /\ rq[p].kind = "task"
    /\ audit' = audit_task(audit, jwt_payload[p], rq[p].task)
    /\ wrote' = Committed(p)
    /\ IF SandboxMismatch(jwt_payload[p], rq[p].task)
       THEN Reject(p, HttpError(403, "Sandbox ID mismatch"))
       ELSE /\ pc' = [pc EXCEPT ![p] = "forward_to_vendor"]
            /\ UNCHANGED resp
    /\ UNCHANGED <<now, rq, handed, jwt_payload, calls>>
    /\ UNCHANGED <<httpx_json, svars, avars, mvars>>

\* forward_to_vendor("tasks", task.dict()) up to the request it posts
ForwardToVendor(p) ==
    /\ pc[p] = "forward_to_vendor"
    /\ calls' = client_post(calls,
                            VendorCall(p, "tasks", TaskDict(rq[p].task), now,
                                       RequestContent(TaskDict(rq[p].task), httpx_json)))
    /\ pc' = [pc EXCEPT ![p] = "await_vendor"]
    /\ UNCHANGED <<now, rq, resp, audit, wrote, handed, jwt_payload>>
    /\ UNCHANGED <<httpx_json, svars, avars, mvars>>

\* the calls of request p the vendor has not answered
InFlight(p) ==
    { i \in 1..Len(calls) : calls[i].by = p /\ calls[i].response = NoneVal }

\* the vendor answers or the call fails; forward_to_vendor returns or
\* raises, and submit_seo_task with it
VendorResponse(p, result) ==
    /\ pc[p] = "await_vendor"
    /\ LET outcome == forward_to_vendor(result)
       IN  resp' = [resp EXCEPT ![p] =
               IF outcome.t = "pass"
               THEN [SuccessResponse EXCEPT !.task_id = rq[p].task.request_id]
               ELSE ErrorResponse(outcome)]
    /\ calls' = [i \in 1..Len(calls) |->
                    IF i \in InFlight(p) THEN [calls[i] EXCEPT !.response = result]
                    ELSE calls[i]]
    /\ pc' = [pc EXCEPT ![p] = "done"]
    /\ UNCHANGED <<now, rq, audit, wrote, handed, jwt_payload>>
    /\ UNCHANGED <<httpx_json, svars, avars, mvars>>

\* the caller disconnects while the vendor call is in flight: the request
\* task is cancelled at its await and the call is aborted
Cancel(p) ==
    /\ pc[p] = "await_vendor"
    /\ pc' = [pc EXCEPT ![p] = "cancelled"]
    /\ UNCHANGED <<now, rq, resp, audit, wrote, handed, jwt_payload, calls>>
    /\ UNCHANGED <<httpx_json, svars, avars, mvars>>

\* the steps of request p after its arrival
Step(p) ==
    \/ VerifyHmac(p)
    \/ VerifyIpAllowlist(p)
    \/ ReceiveSeoReport(p)
    \/ ReceivePublishNotification(p)
    \/ ReceiveVendorFile(p)
    \/ VerifyInternalJwt(p)
    \/ SubmitSeoTask(p)
    \/ ForwardToVendor(p)

(***************************************************************************)
(* One request at a time, over every input                                 *)
(***************************************************************************)
\* the httpx the relay was installed with
InitBuild == httpx_json \in HttpxJson

InitGuards == InitRelay /\ InitBuild /\ InitNoCaller

NextGuards ==
    \/ \E r \in Envelopes \cup TaskRequests : Arrive(1, r)
    \/ \E result \in VendorResults : VendorResponse(1, result)
    \/ Cancel(1)
    \/ Step(1)
    \/ Tick

SpecGuards == InitGuards /\ [][NextGuards]_vars

(***************************************************************************)
(* One request at a time with a database that can fail                     *)
(***************************************************************************)
\* db.commit() raises in log_communication (the database is unreachable or
\* refuses the row): the exception leaves the handler before anything else
\* runs, get_db closes the session without the row, and
\* general_exception_handler answers
CommitFails(p) ==
    /\ pc[p] = "handler"
    /\ rq[p].kind = "task" => ~SandboxMismatch(jwt_payload[p], rq[p].task)
    /\ Reject(p, Raised("SQLAlchemyError"))
    /\ UNCHANGED <<now, rq, audit, wrote, handed, jwt_payload, calls>>
    /\ UNCHANGED <<httpx_json, svars, avars, mvars>>

NextFaults == NextGuards \/ CommitFails(1)

SpecFaults == InitGuards /\ [][NextFaults]_vars

(***************************************************************************)
(* Several requests in flight                                              *)
(***************************************************************************)
InboundRequest(kind, host, timestamp, signed) ==
    LET m == CHOOSE x \in InboundMessages :
                 x.kind = kind /\ x.parsed.request_id = <<"r", "1">>
    IN  [kind |-> kind, client |-> host, timestamp |-> timestamp, body |-> m.body,
         parsed |-> m.parsed, absent |-> {},
         signature |-> IF signed
                       THEN VendorSign(VENDOR_HMAC_SECRET, timestamp, m.body)
                       ELSE Text(<<"i", "n", "v", "a", "l", "i", "d", "-", "s", "i", "g", "n", "a", "t", "u", "r", "e">>)]

TaskRequest(token_sandbox, task_sandbox) ==
    [kind |-> "task",
     authorization |-> [bearer |-> TRUE,
                        token |-> Jwt(JWT_SECRET, [sandbox_id |-> token_sandbox,
                                                   exp |-> StartTime + 3600])],
     task |-> [request_id |-> <<"r", "1">>, sandbox_id |-> task_sandbox,
               title |-> <<"p", "a", "g", "e">>, description |-> <<"n", "e", "w">>]]

\* the requests of the concurrent runs: one acceptable message of each
\* kind, one at the edge of the window, one with a wrong signature, and a
\* task of the caller's tenant
Traffic ==
    { InboundRequest("report", <<"1", "0", ".", "0", ".", "0", ".", "5">>, IntToStr(StartTime), TRUE),
      InboundRequest("publish", <<"1", "2", "7", ".", "0", ".", "0", ".", "1">>, IntToStr(StartTime), TRUE),
      InboundRequest("file", <<":", ":", "1">>, IntToStr(StartTime), TRUE),
      InboundRequest("report", <<"1", "0", ".", "0", ".", "0", ".", "5">>, IntToStr(StartTime - Window), TRUE),
      InboundRequest("report", <<"1", "0", ".", "0", ".", "0", ".", "5">>, IntToStr(StartTime), FALSE),
      TaskRequest(T1, T1) }

\* the vendor's answers in the concurrent runs: success, an error status
\* and no response
TrafficResults == { result \in VendorResults : result.status \in {0, 500} \/ IsJson(result.text) }

Init == InitRelay /\ InitBuild /\ InitNoCaller

\* no request is between its arrival and its end
Quiescent == \A p \in Reqs : pc[p] \in {"idle", "done", "cancelled"}

\* Concurrent requests are in flight within one reading of the clock; the
\* clock advances between them.
Next ==
    \/ \E p \in Reqs, r \in Traffic : Arrive(p, r)
    \/ \E p \in Reqs, result \in TrafficResults : VendorResponse(p, result)
    \/ \E p \in Reqs : Cancel(p)
    \/ \E p \in Reqs : Step(p)
    \/ Quiescent /\ Tick

Spec == Init /\ [][Next]_vars

(***************************************************************************)
(* A caller of sanitize_vendor_data                                        *)
(***************************************************************************)
InitSanitize ==
    \E p \in Payloads :
        /\ input = p
        /\ heap = AllocVal(<<>>, p).heap
        /\ data = AllocVal(<<>>, p).cell.a
        /\ sanitized = 0
        /\ resanitized = 0
        /\ spc = "call"
        /\ InitRelay
        /\ httpx_json = "default"
        /\ InitDefaultAllowlist

\* sanitized = sanitize_vendor_data(data)
Sanitize ==
    /\ spc = "call"
    /\ LET r == sanitize_vendor_data(heap, data)
       IN  /\ heap' = r.heap
           /\ sanitized' = r.ref
    /\ spc' = "done"
    /\ UNCHANGED <<data, input, resanitized>>
    /\ UNCHANGED <<rvars, avars, mvars>>

\* sanitize_vendor_data(sanitized): the result redacted once more
Resanitize ==
    /\ spc = "done"
    /\ LET r == sanitize_vendor_data(heap, sanitized)
       IN  /\ heap' = r.heap
           /\ resanitized' = r.ref
    /\ spc' = "again"
    /\ UNCHANGED <<data, input, sanitized>>
    /\ UNCHANGED <<rvars, avars, mvars>>

NextSanitize == Sanitize \/ Resanitize

SpecSanitize == InitSanitize /\ [][NextSanitize]_vars

(***************************************************************************)
(* A caller of verify_ip_allowlist under every configuration               *)
(***************************************************************************)
\* the ranges an operator puts into ALLOWED_IPS
Cidrs == { <<"1", "2", "7", ".", "0", ".", "0", ".", "1", "/", "3", "2">>, <<"1", "0", ".", "0", ".", "0", ".", "0", "/", "8">>, <<"1", "9", "2", ".", "1", "6", "8", ".", "1", ".", "0", "/", "2", "4">>, <<"1", "7", "2", ".", "1", "6", ".", "0", ".", "0", "/", "1", "2">> }

\* ALLOWED_IPS has at least one entry: "".split(",") is [""], which
\* IPv4Network rejects when the module is loaded
Allowlists == (SUBSET Cidrs) \ {{}}

\* request.client.host: the addresses of Hosts, another address of
\* 127.0.0.0/8, the last address inside 172.16.0.0/12 and the first one
\* after it, and a name
Peers == Hosts \cup { <<"1", "2", "7", ".", "0", ".", "0", ".", "2">>, <<"1", "7", "2", ".", "3", "1", ".", "2", "5", "5", ".", "2", "5", "5">>, <<"1", "7", "2", ".", "3", "2", ".", "0", ".", "0">>, <<"l", "o", "c", "a", "l", "h", "o", "s", "t">> }

InitAllowlist ==
    /\ allowlist \in Allowlists
    /\ peer \in Peers
    /\ verdict = NotRun
    /\ InitRelay
    /\ httpx_json = "default"
    /\ heap = <<>>
    /\ data = 0
    /\ input = DictObj(<<>>)
    /\ sanitized = 0
    /\ resanitized = 0
    /\ spc = "none"

\* await verify_ip_allowlist(request)
CheckIp ==
    /\ verdict = NotRun
    /\ verdict' = verify_ip(peer, Networks(allowlist))
    /\ UNCHANGED <<allowlist, peer, rvars, svars, mvars>>

NextAllowlist == CheckIp

SpecAllowlist == InitAllowlist /\ [][NextAllowlist]_vars

(***************************************************************************)
(* Budget monitor: BudgetMonitor.send_alerts and the monitoring loop       *)
(***************************************************************************)
\* 6 * 3600
SixHours == 21600

\* how many check cycles a run has
MaxChecks == 3

Sandboxes == {"sb1", "sb2"}

\* the levels check_costs assigns, with a cost that has the level: at or
\* above COST_THRESHOLD_USD (5.0) critical, at or above 70% of it warning
LevelCost == [warning |-> 4, critical |-> 6]

\* an entry of the list check_costs returns
Exceeding(sandbox_id, level) ==
    [sandbox_id |-> sandbox_id, cost |-> LevelCost[level], level |-> level]

\* the lists check_costs returns that run_once passes to send_alerts: one
\* entry for each sandbox at or above a threshold, at least one entry
ExceedingLists ==
    { <<Exceeding("sb1", a)>> : a \in DOMAIN LevelCost }
        \cup { <<Exceeding("sb2", b)>> : b \in DOMAIN LevelCost }
        \cup { <<Exceeding("sb1", a), Exceeding("sb2", b)>> : a \in DOMAIN LevelCost, b \in DOMAIN LevelCost }

\* the time between two calls of send_alerts: the sleep and the work of a
\* cycle
Sleeps == {1, SixHours - 1}

\* self.alerted_sandboxes.get(sandbox_id, {}) with last_alert.get('time', 0)
\* and last_alert.get('level', '')
LastAlert(alerted, sandbox_id) ==
    IF sandbox_id \in DOMAIN alerted THEN alerted[sandbox_id]
    ELSE [time |-> 0, level |-> "", cost |-> 0]

\* (now - last_time < 6 * 3600) and (level == last_level)
AlertedRecently(current, last_alert, level) ==
    (current - last_alert.time < SixHours) /\ (level = last_alert.level)

\* self.alerted_sandboxes[sandbox_id] = {'time': now, 'level': level, 'cost': cost}
Record(alerted, sandbox, current) ==
    [id \in DOMAIN alerted \cup {sandbox.sandbox_id} |->
        IF id = sandbox.sandbox_id
        THEN [time |-> current, level |-> sandbox.level, cost |-> sandbox.cost]
        ELSE alerted[id]]

RECURSIVE send_alerts_recording_all(_, _, _, _, _)
\* The variant that updates the tracker after every send, failed or not.
send_alerts_recording_all(alerted, exceeding, current, slack_ok, posts) ==
    IF exceeding = <<>> THEN [alerted |-> alerted, posts |-> posts]
    ELSE LET sandbox == Head(exceeding)
             last_alert == LastAlert(alerted, sandbox.sandbox_id)
         IN  IF AlertedRecently(current, last_alert, sandbox.level)
             THEN send_alerts_recording_all(alerted, Tail(exceeding), current, slack_ok, posts)
             ELSE send_alerts_recording_all(
                      Record(alerted, sandbox, current), Tail(exceeding), current, slack_ok,
                      Append(posts, [sandbox_id |-> sandbox.sandbox_id, level |-> sandbox.level,
                                     success |-> slack_ok[sandbox.sandbox_id], at |-> current]))

RECURSIVE send_alerts(_, _, _, _, _)
\* BudgetMonitor.send_alerts(exceeding_sandboxes) at clock reading current:
\* the tracker and the calls of self.slack.send_alert after the loop;
\* slack_ok[sandbox_id] is what send_alert returns for the sandbox
send_alerts(alerted, exceeding, current, slack_ok, posts) ==
    IF exceeding = <<>> THEN [alerted |-> alerted, posts |-> posts]
    ELSE LET sandbox == Head(exceeding)
             last_alert == LastAlert(alerted, sandbox.sandbox_id)
             success == slack_ok[sandbox.sandbox_id]
         IN  IF AlertedRecently(current, last_alert, sandbox.level)
             THEN send_alerts(alerted, Tail(exceeding), current, slack_ok, posts)
             ELSE send_alerts(
                      IF success THEN Record(alerted, sandbox, current) ELSE alerted,
                      Tail(exceeding), current, slack_ok,
                      Append(posts, [sandbox_id |-> sandbox.sandbox_id, level |-> sandbox.level,
                                     success |-> success, at |-> current]))

\* run_once with a check_costs that found sandboxes at or above a
\* threshold: self.send_alerts(exceeding_sandboxes)
SendAlerts(exceeding, slack_ok) ==
    /\ ~asleep
    /\ checks < MaxChecks
    /\ LET r == send_alerts(alerted_sandboxes, exceeding, time_time, slack_ok, <<>>)
       IN  /\ alerted_sandboxes' = r.alerted
           /\ slack_posts' = r.posts
    /\ exceeding_sandboxes' = exceeding
    /\ checks' = checks + 1
    /\ asleep' = TRUE
    /\ UNCHANGED <<time_time, rvars, svars, avars>>

\* time.sleep(self.check_interval_seconds) and the time the next check takes
Sleep(seconds) ==
    /\ asleep
    /\ time_time' = time_time + seconds
    /\ asleep' = FALSE
    /\ UNCHANGED <<alerted_sandboxes, exceeding_sandboxes, slack_posts, checks>>
    /\ UNCHANGED <<rvars, svars, avars>>

NextMonitor ==
    \/ \E exceeding \in ExceedingLists, slack_ok \in [Sandboxes -> BOOLEAN] :
           SendAlerts(exceeding, slack_ok)
    \/ \E seconds \in Sleeps : Sleep(seconds)

InitMonitoring == InitRelay /\ httpx_json = "default" /\ InitNoCaller

SpecMonitor == InitMonitoring /\ [][NextMonitor]_vars

(***************************************************************************)
(* Properties of the redaction                                             *)
(***************************************************************************)
Key_name == PayloadKeys[1]
Key_Vendor_ID == PayloadKeys[2]
Key_vendor_item == PayloadKeys[3]

VendorText == StrVal(VendorName \o <<" ">> \o VendorName)
PlatformText == StrVal(PlatformName \o <<" ">> \o PlatformName)

\* what sanitize_vendor_data(data) returned, as a value
Output == Deref(heap, Ref(sanitized))

\* what sanitize_vendor_data(sanitized) returned, as a value
OutputAgain == Deref(heap, Ref(resanitized))

\* the vendor-identity markers named by the specification
Markers ==
    { <<"v", "e", "n", "d", "o", "r">>,
      <<"c", "s", "_">>,
      <<"c", "u", "s", "t", "o", "m", "e", "r", "s", "c", "o", "u", "t">> }

HasMarker(key) == \E m \in Markers : Contains(Lower(key), m)

RECURSIVE HasMarkerKey(_)
\* some key, at some depth of v, contains a marker
HasMarkerKey(v) ==
    IF v.t = "dict"
    THEN \E k \in DOMAIN v.d : HasMarker(k) \/ HasMarkerKey(v.d[k])
    ELSE IF v.t = "list"
    THEN \E i \in 1..Len(v.items) : HasMarkerKey(v.items[i])
    ELSE FALSE

RECURSIVE HasVendorName(_)
\* some string, at some depth of v, contains the vendor's display name
HasVendorName(v) ==
    IF v.t = "dict"
    THEN \E k \in DOMAIN v.d : HasVendorName(v.d[k])
    ELSE IF v.t = "list"
    THEN \E i \in 1..Len(v.items) : HasVendorName(v.items[i])
    ELSE v.t = "str" /\ Contains(v.s, VendorName)

AllDicts(v) == v.t = "list" /\ \A i \in 1..Len(v.items) : v.items[i].t = "dict"

RECURSIVE FieldStringsRedacted(_)
\* no string that is the value of a field of the dict v, of a dict nested in
\* it as the value of a field, or of a dict in a list of dicts only, contains
\* the vendor's display name
FieldStringsRedacted(v) ==
    \A k \in DOMAIN v.d :
        /\ v.d[k].t = "str" => ~Contains(v.d[k].s, VendorName)
        /\ v.d[k].t = "dict" => FieldStringsRedacted(v.d[k])
        /\ AllDicts(v.d[k]) =>
               \A i \in 1..Len(v.d[k].items) : FieldStringsRedacted(v.d[k].items[i])

\* C5: in the output of sanitize_vendor_data no key, at any depth, contains
\* one of the markers vendor, cs_, customerscout (case-insensitively); a key
\* such as vendor_item is dropped.
C5_NoMarkerKeyInOutput == spc = "done" => ~HasMarkerKey(Output)

\* C6 (as stated): no string anywhere in the output, list elements included,
\* still contains the vendor's display name.
C6_NoVendorNameAnywhere == spc = "done" => ~HasVendorName(Output)

\* C6 (amended): in the output every string that is the value of a field, in
\* the top-level dict, in nested dicts and in the dicts of a list made of
\* dicts only, is free of the vendor's display name.
C6_FieldStringsRedacted == spc = "done" => FieldStringsRedacted(Output)

\* C6 witness: the string of a dict inside a list, nested in the payload, had
\* both occurrences of the vendor's name replaced by the platform's.
C6_Witness ==
    /\ spc = "done"
    /\ input = DictObj(Key_name :> ListObj(<<DictObj(Key_name :> VendorText)>>))
    /\ Output = DictObj(Key_name :> ListObj(<<DictObj(Key_name :> PlatformText)>>))

\* C7: redaction is idempotent: redacting the output again yields the output.
C7_Idempotent == spc = "again" => OutputAgain = Output

\* C7 witness: a payload whose first redaction dropped a key and rewrote a
\* string has been redacted twice.
C7_Witness ==
    /\ spc = "again"
    /\ input = DictObj(Key_name :> DictObj(Key_Vendor_ID :> NumVal(1) @@ Key_name :> VendorText))
    /\ Output = DictObj(Key_name :> DictObj(Key_name :> PlatformText))

\* C8: sanitize_vendor_data does not mutate its argument: after the call the
\* caller's payload is, at every depth, what it was before, and the result
\* is another dict object than the argument.
C8_CallerPayloadIntact ==
    spc \in {"done", "again"} =>
        /\ Deref(heap, Ref(data)) = input
        /\ sanitized # data

\* C8 witness: the call dropped a key of a nested dict and rewrote a string,
\* and returned.
C8_Witness ==
    /\ spc = "done"
    /\ input = DictObj(Key_name :> DictObj(Key_Vendor_ID :> VendorText) @@ Key_vendor_item :> VendorText)
    /\ Output = DictObj(Key_name :> DictObj(<<>>) @@ Key_vendor_item :> PlatformText)

(***************************************************************************)
(* Properties of the guards, one request at a time (SpecGuards)            *)
(***************************************************************************)
Inbound == {"report", "publish", "file"}

\* the texts of the message bodies
MessageTexts ==
    { <<"{", "r", "e", "p", "o", "r", "t", " ", "r", "1", "}">>, <<"{", NonAsciiChar, "}">>, <<"{", "p", "u", "b", "l", "i", "s", "h", " ", "r", "1", "}">>, <<"-", "-", "f", "i", "l", "e", " ", "a", ",", "b">> }

\* request r carries the signature computed over timestamp + "." + body with
\* the shared secret, the way forward_to_vendor and the tests compute it
CorrectlySigned(r) ==
    \E text \in MessageTexts :
        /\ r.absent = {}
        /\ r.body = EncodeUtf8(text)
        /\ r.signature = sign(VENDOR_HMAC_SECRET, r.timestamp, text)

\* verify_hmac has run for request p
HmacChecked(p) ==
    rq[p].kind \in Inbound /\ rq[p].absent = {} /\ pc[p] \notin {"idle", "verify_hmac"}

C2_BadSignatureGets401 ==
    \A p \in Reqs :
        (HmacChecked(p)
         /\ rq[p].signature # VendorSign(VENDOR_HMAC_SECRET, rq[p].timestamp, rq[p].body)) =>
            /\ resp[p].status = 401
            /\ resp[p].error = "Invalid signature"

\* C3: a correctly signed message is rejected as expired (401 'Expired
\* timestamp') when |now - timestamp| > 300, in the past and in the future,
\* and accepted by verify_hmac when |now - timestamp| <= 300.
C3_FreshnessWindow ==
    [][\A p \in Reqs :
          (/\ rq[p].kind \in Inbound
           /\ pc[p] = "verify_hmac"
           /\ pc'[p] # "verify_hmac"
           /\ CorrectlySigned(rq[p])
           /\ ParseInt(rq[p].timestamp).ok) =>
              LET timestamp == ParseInt(rq[p].timestamp).n
                  late == now - timestamp > 300
                  early == timestamp - now > 300
              IN  /\ (late \/ early) =>
                         /\ pc'[p] = "done"
                         /\ resp'[p].status = 401
                         /\ resp'[p].error = "Expired timestamp"
                  /\ ~(late \/ early) =>
                         /\ pc'[p] = "verify_ip_allowlist"
                         /\ resp'[p] = NoResponse]_vars

\* C3 witness: a correctly signed message exactly 300 seconds old was
\* accepted by verify_hmac.
C3_Witness ==
    /\ now = StartTime
    /\ pc[1] = "verify_ip_allowlist"
    /\ CorrectlySigned(rq[1])
    /\ rq[1].timestamp = IntToStr(StartTime - 300)

\* C4: a task submission with a valid token bound to one tenant and a body
\* naming another tenant is rejected with 403, never 401, never success.
C4_TenantMismatchForbidden ==
    \A p \in Reqs :
        (/\ rq[p].kind = "task"
         /\ pc[p] \in {"forward_to_vendor", "await_vendor", "cancelled", "done"}
         /\ "sandbox_id" \in DOMAIN jwt_payload[p]
         /\ jwt_payload[p].sandbox_id # rq[p].task.sandbox_id) =>
            /\ pc[p] = "done"
            /\ resp[p].status = 403
            /\ ~resp[p].success

\* C4 witness: the token of tenant T1 was verified, the task named T2, and
\* the request was answered.
C4_Witness ==
    /\ pc[1] = "done"
    /\ rq[1].kind = "task"
    /\ jwt_payload[1] = [sandbox_id |-> T1, exp |-> StartTime + 3600]
    /\ rq[1].task.sandbox_id = T2
    /\ resp[1].error = "Sandbox ID mismatch"

\* C9: the network provenance guard is evaluated first: a request from an IP
\* that is neither loopback nor inside the allowlist is rejected with 403,
\* whatever its signature and timestamp (stated for requests with a text
\* body and an ASCII signature header, which verify_hmac answers itself).
C9_DisallowedIpGets403 ==
    \A p \in Reqs :
        (/\ rq[p].kind \in Inbound
         /\ pc[p] = "done"
         /\ IsUtf8(rq[p].body)
         /\ rq[p].signature.t = "hex"
         /\ rq[p].client \in { <<"1", "9", "2", ".", "1", "6", "8", ".", "1", ".", "1">>, <<"2", "0", "0", "1", ":", "d", "b", "8", ":", ":", "1">> }) =>
            resp[p].status = 403

(***************************************************************************)
(* Properties of the relay with several requests in flight (Spec)          *)
(***************************************************************************)
InboundRows == { i \in 1..Len(audit) : audit[i].direction = "inbound" }

\* C10: an inbound message that passed the IP, signature and freshness
\* guards is answered success = true and appends exactly one audit record,
\* with direction = inbound and its own message type; with several messages
\* in flight, N accepted messages have exactly N records.
C10_OneRecordPerAcceptedMessage ==
    /\ [](Cardinality(InboundRows)
              = Cardinality({ p \in Reqs : rq[p].kind \in Inbound /\ resp[p].success }))
    /\ [][\A p \in Reqs :
            (rq[p].kind \in Inbound /\ pc[p] = "handler" /\ pc'[p] # "handler") =>
                /\ resp'[p].status = 200
                /\ resp'[p].success
                /\ Len(audit') = Len(audit) + 1
                /\ SubSeq(audit', 1, Len(audit)) = audit
                /\ audit'[Len(audit')].direction = "inbound"
                /\ audit'[Len(audit')].message_type = rq[p].kind
                /\ audit'[Len(audit')].request_id = rq[p].parsed.request_id]_vars

\* C10 witness: two accepted messages were in flight together, the one that
\* arrived second committed its record first, and both have one record.
C10_Witness ==
    /\ pc[1] = "done" /\ resp[1].success /\ rq[1].kind = "report"
    /\ pc[2] = "done" /\ resp[2].success /\ rq[2].kind = "publish"
    /\ wrote[1] = {2}
    /\ wrote[2] = {1}
    /\ Len(audit) = 2

(***************************************************************************)
(* Properties of what the handlers store, hand on and answer               *)
(***************************************************************************)
\* the payload request p handed downstream has no vendor-identity marker
ForwardedPayloadRedacted(p) ==
    ~HasMarkerKey(handed[p]) /\ ~HasVendorName(handed[p])

\* the payloads of the audit records of request p have no vendor-identity
\* marker
StoredPayloadRedacted(p) ==
    \A i \in wrote[p] :
        ~HasMarkerKey(audit[i].payload) /\ ~HasVendorName(audit[i].payload)

\* C11: for every accepted inbound report or publish notification, the
\* payload the relay stores (the payload of its inbound audit record) and
\* the payload it hands downstream contain no vendor-identity marker: no
\* key with a marker and no string with the vendor's display name.
C11_StoredAndForwardedPayloadRedacted ==
    \A p \in Reqs :
        (rq[p].kind \in {"report", "publish"} /\ resp[p].success) =>
            ForwardedPayloadRedacted(p) /\ StoredPayloadRedacted(p)

\* C12: every response the relay returns to the caller of POST
\* /vendor/seo/task, on success and on every error path, is free of the
\* vendor's display name.
C12_TaskResponsesFreeOfVendorName ==
    \A p \in Reqs :
        (rq[p].kind = "task" /\ pc[p] = "done") =>
            /\ ~Contains(resp[p].detail, VendorName)
            /\ ~Contains(resp[p].task_id, VendorName)

(***************************************************************************)
(* Properties of the outbound relay client and of task submission          *)
(***************************************************************************)
\* the calls to the vendor made for request p
CallsOf(p) == { i \in 1..Len(calls) : calls[i].by = p }

\* C13: when the vendor answers a forwarded request with a non-2xx status,
\* the caller gets exactly the vendor's status code and the vendor's
\* message; when the call fails at transport level, the caller gets 503; in
\* neither case is the answer a success.
C13_VendorErrorsMapped ==
    \A i \in 1..Len(calls) :
        LET answer == calls[i].response
            p == calls[i].by
        IN  /\ answer.t = "status" =>
                   /\ pc[p] = "done"
                   /\ resp[p].status = answer.status
                   /\ resp[p].error = "Vendor API error"
                   /\ resp[p].detail = answer.text
                   /\ ~resp[p].success
            /\ answer.t = "down" =>
                   /\ pc[p] = "done"
                   /\ resp[p].status = 503
                   /\ resp[p].error = "Vendor API unavailable"
                   /\ ~resp[p].success

\* C13 witness: the vendor answered 422 with a message and the caller got
\* 422 with that message.
C13_Witness ==
    /\ Len(calls) = 1
    /\ calls[1].response.t = "status"
    /\ calls[1].response.status = 422
    /\ resp[1].status = 422
    /\ resp[1].detail = <<"b", "a", "d">>

\* C14: each task submission makes at most one call to the vendor; after a
\* rejected or failed call the relay makes no further attempt and answers
\* the caller with the failure.
C14_NoRetry ==
    \A p \in Reqs :
        /\ Cardinality(CallsOf(p)) <= 1
        /\ \A i \in CallsOf(p) :
               calls[i].response.t \in {"status", "down"} =>
                   /\ pc[p] = "done"
                   /\ ~resp[p].success
                   /\ resp[p].status \in {calls[i].response.status, 503}

\* C14 witness: two tasks were submitted, the vendor failed both, and each
\* has exactly one call.
C14_Witness ==
    /\ Len(calls) = 2
    /\ calls[1].by # calls[2].by
    /\ calls[1].response.t = "down"
    /\ calls[2].response.t = "status"
    /\ resp[calls[1].by].status = 503
    /\ resp[calls[2].by].status = 500

\* C15: for every outbound call, X-Signature is the HMAC-SHA256 of
\* X-Timestamp + "." + body under the shared secret, body being the bytes
\* transmitted as the request body.
C15_SignatureCoversSentBytes ==
    \A i \in 1..Len(calls) :
        calls[i].x_signature
            = VendorSign(VENDOR_HMAC_SECRET, calls[i].x_timestamp, calls[i].content)

\* C16: a task submission verifies the token, checks the tenant binding,
\* writes the outbound audit record (direction outbound, message type task)
\* and only then calls the vendor; success, with the task's request_id as
\* task_id, is returned only after the vendor call returned successfully.
C16_TaskStepsInOrder ==
    \A p \in Reqs :
        rq[p].kind = "task" =>
            /\ wrote[p] # {} =>
                   /\ "sandbox_id" \in DOMAIN jwt_payload[p]
                   /\ jwt_payload[p].sandbox_id = rq[p].task.sandbox_id
            /\ \A j \in wrote[p] :
                   /\ audit[j].direction = "outbound"
                   /\ audit[j].message_type = "task"
                   /\ audit[j].request_id = rq[p].task.request_id
            /\ CallsOf(p) # {} => Cardinality(wrote[p]) = 1
            /\ resp[p].success =>
                   /\ \E i \in CallsOf(p) : calls[i].response.t = "ok"
                   /\ resp[p].task_id = rq[p].task.request_id

\* C16 witness: a task went through all the steps and was answered success.
C16_Witness ==
    /\ rq[1].kind = "task"
    /\ pc[1] = "done"
    /\ resp[1].success
    /\ wrote[1] = {1}
    /\ Len(calls) = 1
    /\ calls[1].response.t = "ok"

\* C17: if the caller of a task submission disconnects while the vendor call
\* is in flight, the request leaves no audit record behind.
C17_CancelledLeavesNoRecord ==
    \A p \in Reqs : pc[p] = "cancelled" => wrote[p] = {}

(***************************************************************************)
(* Properties of the status codes of the guards                            *)
(***************************************************************************)
\* the timestamp of request r is outside the window at every clock reading
AlwaysExpired(r) ==
    LET timestamp == ParseInt(r.timestamp)
    IN  /\ timestamp.ok
        /\ \/ timestamp.n < StartTime - Window
           \/ timestamp.n > StartTime + MaxTicks + Window

\* C18: every inbound request whose signature is bad or missing, or whose
\* timestamp is expired or no integer, is answered 401; in particular a
\* request without the X-Vendor-Signature or the X-Vendor-Timestamp header
\* gets 401 (stated for clients the network guard allows).
C18_UnauthenticatedGets401 ==
    \A p \in Reqs :
        (/\ rq[p].kind \in Inbound
         /\ pc[p] = "done"
         /\ verify_ip_allowlist(rq[p].client).t = "pass"
         /\ \/ rq[p].absent # {}
            \/ rq[p].signature # VendorSign(VENDOR_HMAC_SECRET, rq[p].timestamp, rq[p].body)
            \/ ~ParseInt(rq[p].timestamp).ok
            \/ AlwaysExpired(rq[p])) =>
            resp[p].status = 401

\* the token of request r decodes and validates under the signing key at
\* clock reading current_time
ValidToken(r, current_time) ==
    LET token == r.authorization.token
    IN  /\ token.t = "jwt"
        /\ token.key = JWT_SECRET
        /\ "exp" \in DOMAIN token.claims => token.claims.exp > current_time

\* the token of request r names a tenant
NamesTenant(r) ==
    r.authorization.token.t = "jwt" /\ "sandbox_id" \in DOMAIN r.authorization.token.claims

\* C19: verify_internal_jwt fails with 401 whenever the token cannot be
\* decoded and validated against the signing key or its claim set has no
\* sandbox_id; whenever it succeeds it returns the token's full claim set
\* unchanged, which contains sandbox_id.
C19_TokenVerifier ==
    [][\A p \in Reqs :
          (rq[p].kind = "task" /\ pc[p] = "verify_internal_jwt" /\ pc'[p] # "verify_internal_jwt") =>
              IF ValidToken(rq[p], now) /\ NamesTenant(rq[p])
              THEN /\ pc'[p] = "handler"
                   /\ jwt_payload'[p] = rq[p].authorization.token.claims
                   /\ "sandbox_id" \in DOMAIN jwt_payload'[p]
              ELSE /\ pc'[p] = "done"
                   /\ resp'[p].status = 401
                   /\ ~resp'[p].success
                   /\ jwt_payload'[p] = NoClaims]_vars

\* C19 witness: a token signed with another key was answered 401.
C19_Witness ==
    /\ rq[1].kind = "task"
    /\ pc[1] = "done"
    /\ rq[1].authorization.token.t = "jwt"
    /\ rq[1].authorization.token.key # JWT_SECRET
    /\ resp[1].status = 401
    /\ jwt_payload[1] = NoClaims

(***************************************************************************)
(* Properties of the network guard under every configuration               *)
(* (SpecAllowlist)                                                         *)
(***************************************************************************)
Loopback == { <<"1", "2", "7", ".", "0", ".", "0", ".", "1">>, <<":", ":", "1">> }

\* C20: for caller IP 127.0.0.1 and for ::1 the network guard allows the
\* request whatever the allowlist contains, including an allowlist with no
\* range that covers loopback.
C20_LoopbackAlwaysAllowed ==
    (peer \in Loopback /\ verdict # NotRun) => verdict = Passed

\* C20 witness: the guard allowed 127.0.0.1 with 10.0.0.0/8 as the only
\* configured range.
C20_Witness ==
    /\ peer = <<"1", "2", "7", ".", "0", ".", "0", ".", "1">>
    /\ allowlist = { <<"1", "0", ".", "0", ".", "0", ".", "0", "/", "8">> }
    /\ verdict = Passed

\* bit k (1 the most significant, 32 the least) of the address of octets o
AddressBit(o, k) == (o[(k - 1) \div 8 + 1] \div Pow2(7 - ((k - 1) % 8))) % 2

\* text ip is a dotted-quad address whose leading bits are those of the
\* range cidr ("a.b.c.d/n")
WithinRange(ip, cidr) ==
    LET address == IPv4Address(ip)
        parts == Split(cidr, "/")
        base == IPv4Address(parts[1])
    IN  /\ address.ok
        /\ \A k \in 1..ParseInt(parts[2]).n : AddressBit(address.o, k) = AddressBit(base.o, k)

\* C21: for every caller IP other than 127.0.0.1 and ::1, the network guard
\* allows it if and only if it parses as an address and lies inside at least
\* one configured CIDR range; otherwise it is denied with 403.
C21_AllowedIffInsideRange ==
    (peer \notin Loopback /\ verdict # NotRun) =>
        IF \E cidr \in allowlist : WithinRange(peer, cidr)
        THEN verdict = Passed
        ELSE verdict.t = "http" /\ verdict.status = 403

\* C21 witness: with 10.0.0.0/8 as the only range the guard allowed 10.0.0.5.
C21_Witness ==
    /\ peer = <<"1", "0", ".", "0", ".", "0", ".", "5">>
    /\ allowlist = { <<"1", "0", ".", "0", ".", "0", ".", "0", "/", "8">> }
    /\ verdict = Passed

(***************************************************************************)
(* Properties of the audit sink                                            *)
(***************************************************************************)
\* C22: the audit log is append-only: every record is created with
\* processed = false, and no step of any handler, under any interleaving of
\* the requests in flight, changes a field of an existing record or removes
\* a record.
C22_AuditAppendOnly ==
    [][/\ Len(audit') >= Len(audit)
       /\ \A i \in 1..Len(audit) : audit'[i] = audit[i]
       /\ \A i \in (Len(audit) + 1)..Len(audit') : audit'[i].processed = FALSE]_vars

\* C22 witness: two messages with the same request_id were recorded one
\* after the other, and both records are in the log as they were created.
C22_Witness ==
    /\ Len(audit) = 2
    /\ audit[1].request_id = audit[2].request_id
    /\ audit[1].direction = "inbound"
    /\ audit[2].direction = "inbound"
    /\ audit[1].id = 1
    /\ audit[1].message_type # audit[2].message_type
    /\ ~audit[1].processed /\ ~audit[2].processed

(***************************************************************************)
(* Properties of the inbound pipeline                                      *)
(***************************************************************************)
\* the payload of the message of request r as its handler passes it on
InboundPayload(r) ==
    IF r.kind = "report" THEN ReportDict(r.parsed)
    ELSE IF r.kind = "publish" THEN PublishDict(r.parsed)
    ELSE FileDict(r.parsed)

\* C24: for every accepted inbound report or publish notification the audit
\* record holds the message payload as received, with its vendor fields and
\* names; the payload is redacted only once the record is written, and the
\* redaction leaves the record as it is.
C24_RecordHoldsPayloadBeforeRedaction ==
    \A p \in Reqs :
        rq[p].kind \in {"report", "publish"} =>
            /\ resp[p].success =>
                   /\ Cardinality(wrote[p]) = 1
                   /\ \A i \in wrote[p] : audit[i].payload = InboundPayload(rq[p])
            /\ handed[p] # NoneVal =>
                   /\ wrote[p] # {}
                   /\ handed[p] = Redacted[InboundPayload(rq[p])]

\* C24 witness: a publish notification with vendor fields was accepted; its
\* record has them and the redacted payload differs from the record's.
C24_Witness ==
    /\ rq[1].kind = "publish"
    /\ resp[1].success
    /\ wrote[1] = {1}
    /\ HasMarkerKey(audit[1].payload)
    /\ handed[1] # NoneVal
    /\ handed[1] # audit[1].payload

\* what the guards answer when they reject
GuardErrors ==
    { "Invalid signature", "Invalid timestamp format", "Expired timestamp",
      "IP not in allowlist", "Invalid IP format", "Invalid token",
      "Invalid token: missing sandbox_id", "Sandbox ID mismatch" }

\* C25: a message rejected by a guard (IP not allowlisted, bad signature,
\* expired or malformed timestamp, invalid token, tenant mismatch) leaves no
\* audit record, no redaction result and no call to the vendor.
C25_RejectedLeavesNothing ==
    \A p \in Reqs :
        (pc[p] = "done" /\ resp[p].error \in GuardErrors) =>
            /\ ~resp[p].success
            /\ wrote[p] = {}
            /\ handed[p] = NoneVal
            /\ CallsOf(p) = {}

\* C25 witness: a task whose token names another tenant was rejected, and
\* nothing was recorded or sent.
C25_Witness ==
    /\ rq[1].kind = "task"
    /\ pc[1] = "done"
    /\ resp[1].error = "Sandbox ID mismatch"
    /\ audit = <<>>
    /\ calls = <<>>

\* C26: every accepted report, publish notification and file upload has its
\* payload redacted by sanitize_vendor_data after it was audited; the file
\* handler, too, redacts its payload before anything is handed downstream.
C26_EveryInboundClassRedacted ==
    \A p \in Reqs :
        (rq[p].kind \in Inbound /\ resp[p].success) =>
            /\ wrote[p] # {}
            /\ handed[p] # NoneVal
            /\ handed[p] = Redact(InboundPayload(rq[p]))

(***************************************************************************)
(* Properties of repeated deliveries (Spec)                                *)
(***************************************************************************)
\* request p carries a correctly signed envelope with an integer timestamp
\* and comes from a client the network guard allows
Deliverable(p) ==
    /\ rq[p].kind \in Inbound
    /\ CorrectlySigned(rq[p])
    /\ ParseInt(rq[p].timestamp).ok
    /\ verify_ip_allowlist(rq[p].client) = Passed

\* C27: there is no nonce tracking: the clock never goes back, and a
\* correctly signed envelope with timestamp ts from an allowed IP is accepted
\* on every delivery answered while |now - ts| <= 300, whatever was delivered
\* before, each accepted delivery appending its own audit record; a delivery
\* answered when now > ts + 300 is rejected and records nothing.
C27_ReplayWindow ==
    [][/\ now' >= now
       /\ \A p \in Reqs :
              (Deliverable(p) /\ pc[p] # "done" /\ pc'[p] = "done") =>
                  LET ts == ParseInt(rq[p].timestamp).n
                  IN  IF now - ts <= 300 /\ ts - now <= 300
                      THEN /\ resp'[p].success
                           /\ Len(audit') = Len(audit) + 1
                           /\ wrote'[p] = {Len(audit')}
                           /\ audit'[Len(audit')].hmac_signature = rq[p].signature
                      ELSE /\ ~resp'[p].success
                           /\ resp'[p].status = 401
                           /\ audit' = audit]_vars

\* C27 witness: the same envelope, 300 seconds old, was delivered twice and
\* accepted twice, with a record for each delivery.
C27_Witness ==
    /\ rq[1].kind = "report"
    /\ rq[2] = rq[1]
    /\ rq[1].timestamp = IntToStr(StartTime - Window)
    /\ now = StartTime
    /\ resp[1].success /\ resp[2].success
    /\ wrote[1] \cup wrote[2] = {1, 2}
    /\ audit[1].hmac_signature = audit[2].hmac_signature

(***************************************************************************)
(* Properties of the handlers with a database that can fail (SpecFaults)   *)
(***************************************************************************)
\* the records of the message of request p
RecordsOf(p) ==
    { i \in wrote[p] : /\ audit[i].direction = "inbound"
                       /\ audit[i].message_type = rq[p].kind
                       /\ audit[i].request_id = rq[p].parsed.request_id }

\* C28: an inbound message is answered with success only if its audit
\* record was committed: whenever a report, publish or file handler has
\* answered success the log holds the record of that message, and when the
\* audit write fails the caller gets 500 with the generic message, never
\* success.
C28_SuccessOnlyAfterCommit ==
    /\ [](\A p \in Reqs :
              (rq[p].kind \in Inbound /\ resp[p].success) => RecordsOf(p) # {})
    /\ [][\A p \in Reqs :
              (rq[p].kind \in Inbound /\ pc[p] = "handler" /\ pc'[p] = "done"
               /\ Len(audit') = Len(audit)) =>
                  /\ resp'[p].status = 500
                  /\ resp'[p].error = "Internal server error"
                  /\ ~resp'[p].success
                  /\ handed'[p] = NoneVal]_vars

\* C28 witness: a fresh, correctly signed report from an allowed client
\* reached its handler, the commit failed, and the answer was 500.
C28_Witness ==
    /\ rq[1].kind = "report"
    /\ CorrectlySigned(rq[1])
    /\ rq[1].timestamp = IntToStr(StartTime)
    /\ verify_ip_allowlist(rq[1].client) = Passed
    /\ pc[1] = "done"
    /\ resp[1].status = 500
    /\ audit = <<>>

(***************************************************************************)
(* Properties of the budget monitor (SpecMonitor)                          *)
(***************************************************************************)
\* send_alert was called for the sandbox in the call of send_alerts that
\* ends with this step
Attempted(sandbox_id) ==
    \E j \in 1..Len(slack_posts') : slack_posts'[j].sandbox_id = sandbox_id

\* C29: in send_alerts a sandbox over a threshold is alerted again only if
\* more than 6 hours have passed since its last recorded alert or its level
\* differs from the recorded level; within 6 hours at the same level the
\* alert is skipped; a sandbox with no recorded alert is always alerted.
C29_AlertSuppression ==
    [][checks' = checks + 1 =>
          \A i \in 1..Len(exceeding_sandboxes') :
              LET sandbox == exceeding_sandboxes'[i]
                  sandbox_id == sandbox.sandbox_id
              IN  IF sandbox_id \notin DOMAIN alerted_sandboxes
                  THEN Attempted(sandbox_id)
                  ELSE Attempted(sandbox_id) <=>
                           \/ time_time - alerted_sandboxes[sandbox_id].time > SixHours
                           \/ sandbox.level # alerted_sandboxes[sandbox_id].level]_vars

\* C30: alerted_sandboxes[sandbox] is written only when the Slack send for
\* that sandbox succeeded, and then holds the time and the level of that
\* send; after a failed send the entry is as it was, and at the next check
\* the alert for the sandbox, if it is still at that level, is attempted
\* again.
C30_RecordedOnlyAfterSuccess ==
    [][/\ checks' = checks => alerted_sandboxes' = alerted_sandboxes
       /\ checks' = checks + 1 =>
              /\ \A id \in Sandboxes :
                     IF \E j \in 1..Len(slack_posts') :
                            slack_posts'[j].sandbox_id = id /\ slack_posts'[j].success
                     THEN /\ id \in DOMAIN alerted_sandboxes'
                          /\ alerted_sandboxes'[id].time = time_time
                          /\ \E j \in 1..Len(slack_posts') :
                                 /\ slack_posts'[j].sandbox_id = id
                                 /\ slack_posts'[j].level = alerted_sandboxes'[id].level
                     ELSE /\ id \in DOMAIN alerted_sandboxes' <=> id \in DOMAIN alerted_sandboxes
                          /\ id \in DOMAIN alerted_sandboxes =>
                                 alerted_sandboxes'[id] = alerted_sandboxes[id]
              /\ \A j \in 1..Len(slack_posts) :
                     (/\ ~slack_posts[j].success
                      /\ \E i \in 1..Len(exceeding_sandboxes') :
                             /\ exceeding_sandboxes'[i].sandbox_id = slack_posts[j].sandbox_id
                             /\ exceeding_sandboxes'[i].level = slack_posts[j].level) =>
                         Attempted(slack_posts[j].sandbox_id)]_vars

\* C30 witness: the send for sb1 failed and the send for sb2 succeeded in
\* the same call; only sb2 has an entry, with the time of the call.
C30_Witness ==
    /\ checks = 1
    /\ Len(slack_posts) = 2
    /\ slack_posts[1].sandbox_id = "sb1" /\ ~slack_posts[1].success
    /\ slack_posts[2].sandbox_id = "sb2" /\ slack_posts[2].success
    /\ DOMAIN alerted_sandboxes = {"sb2"}
    /\ alerted_sandboxes["sb2"].time = time_time
    /\ alerted_sandboxes["sb2"].level = slack_posts[2].level

====
